---- MODULE Spec2Model ----
(***************************************************************************)
(* Region selection (src/object_detector/custom_roi_heads.py) and the      *)
(* validation and language-model evaluation passes                         *)
(* (src/full_model/evaluate_full_model.py) of rgrg.                        *)
(*                                                                         *)
(* Tensors are functions and sequences: a [n x 36] tensor is a sequence of *)
(* n rows, each a function on Regions (torch's 0-based class index); a     *)
(* [36] tensor is a function on Regions.  Rows of a tensor are numbered    *)
(* from 1 here and from 0 in torch.  Probabilities are the float32 values  *)
(* the softmax produced, in units of 1/MaxScore; 0 is the float 0.0, which *)
(* the softmax yields when a logit lies far enough below the row maximum.  *)
(***************************************************************************)
EXTENDS Integers, Sequences, FiniteSets, TLC

\* ------------------------------------------------------------------ bounds
MaxProposals == 2
MaxScore == 2
MaxBatches == 2
MaxBatchSize == 2
MaxSaved == 1
MaxPlotted == 1

\* --------------------------------------------------------------- constants
NumRegions == 36

Regions == 0 .. (NumRegions - 1)

\* The regions whose entries the inputs vary; every other region's entry is
\* the same in all rows of an input.
ProbeRegions == {1, 35}

VARIABLES
    sel_pc,                         \* position in get_top_region_features
    pred_scores,                    \* [N x 36] scores, background removed
    region_features,                \* [N] feature vector of each RoI
    boxes_per_image,                \* number of RoIs of each image
    num_img,                        \* image the loop of line 92 is at
    top_region_features_per_image,  \* list of [36] feature vectors
    class_not_predicted_per_image,  \* list of [36] booleans
    val_pc,                         \* position in get_val_losses_and_other_metrics
    val_dl,                         \* the dataloader: its data and len(val_dl)
    num_batch,                      \* batches the loop has taken from val_dl
    batch,                          \* the batch at hand with the model's outputs
    val_losses_dict,
    num_images,
    obj_detector_scores,
    region_selection_scores,
    region_abnormal_scores,
    entries_seen,                   \* history: per region, the (predicted box,
                                    \* ground-truth box, detected) entries fed
    earlier_pass,                   \* history: the batches and the results of the
                                    \* pass before this one over the same val_dl
    lm_pc,                          \* position in evaluate_language_model
    lm_dl,                          \* the dataloader: len(val_dl)
    lm_config,                      \* the batch counts of run_configurations
    lm_num_batch,                   \* num_batch of the loop of line 374
    lm_batch,                       \* the batch at hand with the generated sentences
    language_model_scores,
    gen_and_ref_sentences_to_save_to_file,
    generated_sentences_txt_file,   \* the lines written, <<>> before the write
    num_plots,                      \* calls of plot_detections_and_sentences_to_tensorboard
    eval_pc,                        \* position in evaluate_model
    run_params,
    train_losses_dict,
    model_state_dict,               \* model.state_dict(): the weights of the model
    writer,                         \* what was written to tensorboard
    lr_scheduler,                   \* the metrics lr_scheduler.step was called with
    evaluations                     \* history: run_params at the first call, and the
                                    \* epoch and total loss of every pass decided

sel_vars == <<sel_pc, pred_scores, region_features, boxes_per_image, num_img,
              top_region_features_per_image, class_not_predicted_per_image>>

val_vars == <<val_pc, val_dl, num_batch, batch, val_losses_dict, num_images,
              obj_detector_scores, region_selection_scores, region_abnormal_scores,
              entries_seen, earlier_pass>>

lm_vars == <<lm_pc, lm_dl, lm_config, lm_num_batch, lm_batch, language_model_scores,
             gen_and_ref_sentences_to_save_to_file, generated_sentences_txt_file,
             num_plots>>

eval_vars == <<eval_pc, run_params, train_losses_dict, model_state_dict, writer,
               lr_scheduler, evaluations>>

vars == <<sel_vars, val_vars, lm_vars, eval_vars>>

\* ----------------------------------------------------------------- helpers
RECURSIVE SumSeq(_)
SumSeq(s) == IF s = <<>> THEN 0 ELSE Head(s) + SumSeq(Tail(s))

\* torch.argmax(row): the index of the maximal value, the first one of
\* several maximal values.
ArgMaxFirstRegion(row) ==
    CHOOSE r \in Regions :
        \A q \in Regions : row[q] <= row[r] /\ (q < r => row[q] < row[r])

\* torch.argmax(t, dim=0) for one column of a tensor with at least one row.
ArgMaxFirstIndex(col) ==
    CHOOSE i \in DOMAIN col :
        \A j \in DOMAIN col : col[j] <= col[i] /\ (j < i => col[j] < col[i])

\* torch.split(t, boxes_per_image, dim=0)[k]
SplitRows(t, counts, k) ==
    LET offset == SumSeq(SubSeq(counts, 1, k - 1))
    IN  SubSeq(t, offset + 1, offset + counts[k])

\* ------------------------------------------------- get_top_region_features
\* Lines 94-116 for one image: pred_scores_image is [n x 36], n >= 1.
RECURSIVE PredClasses(_)
PredClasses(pred_scores_image) ==
    IF pred_scores_image = <<>> THEN <<>>
    ELSE <<ArgMaxFirstRegion(Head(pred_scores_image))>>
             \o PredClasses(Tail(pred_scores_image))

MaskPredClasses(pred_classes) ==
    [i \in DOMAIN pred_classes |->
        [r \in Regions |-> IF r = pred_classes[i] THEN 1 ELSE 0]]

PredTopScoresImage(pred_scores_image, mask_pred_classes) ==
    [i \in DOMAIN pred_scores_image |->
        [r \in Regions |-> pred_scores_image[i][r] * mask_pred_classes[i][r]]]

IndsRegionsWithTopScores(pred_top_scores_image) ==
    [r \in Regions |->
        ArgMaxFirstIndex([i \in DOMAIN pred_top_scores_image |->
                             pred_top_scores_image[i][r]])]

NumPredictionsPerClass(mask_pred_classes) ==
    [r \in Regions |->
        Cardinality({i \in DOMAIN mask_pred_classes : mask_pred_classes[i][r] = 1})]

\* The variant that returns the flag of a predicted class.
ClassPredicted(num_predictions_per_class) ==
    [r \in Regions |-> num_predictions_per_class[r] # 0]

ClassNotPredicted(num_predictions_per_class) ==
    [r \in Regions |-> num_predictions_per_class[r] = 0]

TopRegionFeatures(region_features_image, inds_regions_with_top_scores) ==
    [r \in Regions |-> region_features_image[inds_regions_with_top_scores[r]]]

\* The body of the loop for one image: what it appends to the two lists.
TopRegionSelection(pred_scores_image, region_features_image) ==
    LET pred_classes == PredClasses(pred_scores_image)
        mask_pred_classes == MaskPredClasses(pred_classes)
        pred_top_scores_image == PredTopScoresImage(pred_scores_image, mask_pred_classes)
        inds_regions_with_top_scores == IndsRegionsWithTopScores(pred_top_scores_image)
        num_predictions_per_class == NumPredictionsPerClass(mask_pred_classes)
    IN  [top_region_features |->
             TopRegionFeatures(region_features_image, inds_regions_with_top_scores),
         class_not_predicted |-> ClassNotPredicted(num_predictions_per_class)]

\* --------------------------------------------------------- float arithmetic
\* The float a / b of two integers: a fraction in lowest terms, or what the
\* division by 0.0 gives (0/0 is NaN, a/0 is +-inf).  Sums and products of
\* the integer coordinates used here are exact in float32.
RECURSIVE Gcd(_, _)
Gcd(a, b) == IF b = 0 THEN a ELSE Gcd(b, a % b)

Abs(a) == IF a < 0 THEN -a ELSE a

NaN == [kind |-> "nan", num |-> 0, den |-> 0]

Float(a) == [kind |-> "num", num |-> a, den |-> 1]

TensorDiv(a, b) ==
    IF b = 0
    THEN IF a = 0 THEN NaN
         ELSE [kind |-> "inf", num |-> IF a > 0 THEN 1 ELSE -1, den |-> 0]
    ELSE LET g == Gcd(Abs(a), Abs(b))
             sign == IF b < 0 THEN -1 ELSE 1
         IN  [kind |-> "num", num |-> sign * (a \div g), den |-> sign * (b \div g)]

\* x + y of two floats.
FloatAdd(x, y) ==
    IF x.kind = "nan" \/ y.kind = "nan" THEN NaN
    ELSE IF x.kind = "inf" /\ y.kind = "inf" THEN (IF x.num = y.num THEN x ELSE NaN)
    ELSE IF x.kind = "inf" THEN x
    ELSE IF y.kind = "inf" THEN y
    ELSE TensorDiv(x.num * y.den + y.num * x.den, x.den * y.den)

\* x * n of a float and a positive int.
FloatTimes(x, n) == IF x.kind = "num" THEN TensorDiv(x.num * n, x.den) ELSE x

\* The division, were it by the number of images of the pass.
FloatOverNumImages(x, n) ==
    IF x.kind = "num" THEN TensorDiv(x.num, x.den * num_images) ELSE x

\* x / n of a float and a positive int.
FloatOver(x, n) == IF x.kind = "num" THEN TensorDiv(x.num, x.den * n) ELSE x

\* x < y of two floats: False when one of them is NaN.
FloatLess(x, y) ==
    /\ x.kind # "nan"
    /\ y.kind # "nan"
    /\ IF x.kind = "inf" THEN x.num < 0 /\ ~ (y.kind = "inf" /\ y.num < 0)
       ELSE IF y.kind = "inf" THEN y.num > 0
       ELSE x.num * y.den < y.num * x.den

\* ------------------------------------------- update_object_detector_metrics
Max(a, b) == IF a >= b THEN a ELSE b
Min(a, b) == IF a <= b THEN a ELSE b

\* A box is <<x0, y0, x1, y1>>.
ComputeBoxArea(box) == (box[3] - box[1]) * (box[4] - box[2])

IntersectionBox(pred_box, gt_box) ==
    <<Max(pred_box[1], gt_box[1]), Max(pred_box[2], gt_box[2]),
      Min(pred_box[3], gt_box[3]), Min(pred_box[4], gt_box[4])>>

\* Lines 515-518.
ValidIntersection(pred_box, gt_box, detected) ==
    LET ib == IntersectionBox(pred_box, gt_box)
    IN  (ib[1] < ib[3] /\ ib[2] < ib[4]) /\ detected

\* The area of the intersection box, were line 521 left out.
RawIntersectionArea(pred_box, gt_box, detected) ==
    ComputeBoxArea(IntersectionBox(pred_box, gt_box))

\* Lines 508 and 521-525 for one (image, region) entry.
IntersectionArea(pred_box, gt_box, detected) ==
    IF ValidIntersection(pred_box, gt_box, detected)
    THEN ComputeBoxArea(IntersectionBox(pred_box, gt_box))
    ELSE 0

\* The two areas, were the intersection not subtracted at line 512.
SumOfBoxAreas(pred_box, gt_box) == ComputeBoxArea(pred_box) + ComputeBoxArea(gt_box)

\* Lines 508-512 for one entry: the union is taken before line 521 zeroes the
\* non-valid intersection areas.
UnionArea(pred_box, gt_box) ==
    (ComputeBoxArea(pred_box) + ComputeBoxArea(gt_box))
        - ComputeBoxArea(IntersectionBox(pred_box, gt_box))

\* torch.sum(t, dim=0)[r] for t[i][r] == F(i), i in 1 .. n.
RECURSIVE SumOver(_, _)
SumOver(n, f) == IF n = 0 THEN 0 ELSE f[n] + SumOver(n - 1, f)

\* Lines 488-531.
ComputeIntersectionAndUnionAreaPerRegion(b) ==
    [intersection_area |->
        [r \in Regions |->
            SumOver(b.size, [i \in 1 .. b.size |->
                IntersectionArea(b.top_region_boxes[i][r], b.gt_boxes[i][r],
                                 b.class_detected[i][r])])],
     union_area |->
        [r \in Regions |->
            SumOver(b.size, [i \in 1 .. b.size |->
                UnionArea(b.top_region_boxes[i][r], b.gt_boxes[i][r])])]]

\* Whether any image of the batch has the region detected, were line 534 to
\* reduce with any instead of sum.
RegionDetectedAnyImage(b) ==
    [r \in Regions |-> IF \E i \in 1 .. b.size : b.class_detected[i][r] THEN 1 ELSE 0]

\* Line 534.
RegionDetectedBatch(b) ==
    [r \in Regions |-> Cardinality({i \in 1 .. b.size : b.class_detected[i][r]})]

\* The update, were the sums assigned the batch's values instead of
\* incremented by them.
UpdateObjectDetectorMetricsAssigning(scores, b) ==
    LET areas == ComputeIntersectionAndUnionAreaPerRegion(b)
    IN  [sum_region_detected |-> RegionDetectedBatch(b),
         sum_intersection_area_per_region |-> areas.intersection_area,
         sum_union_area_per_region |-> areas.union_area]

\* Lines 533-540.
UpdateObjectDetectorMetrics(scores, b) ==
    LET areas == ComputeIntersectionAndUnionAreaPerRegion(b)
        region_detected_batch == RegionDetectedBatch(b)
    IN  [sum_region_detected |->
            [r \in Regions |-> scores.sum_region_detected[r] + region_detected_batch[r]],
         sum_intersection_area_per_region |->
            [r \in Regions |->
                scores.sum_intersection_area_per_region[r] + areas.intersection_area[r]],
         sum_union_area_per_region |->
            [r \in Regions |->
                scores.sum_union_area_per_region[r] + areas.union_area[r]]]

\* ----------------------------------------------- precision / recall metrics
\* t[mask] for [n x 36] tensors: the entries of t where mask holds, in
\* row-major order.
MaskedSelect(t, mask) ==
    LET Row(k) == ((k - 1) \div NumRegions) + 1
        Col(k) == (k - 1) % NumRegions
        positions == SelectSeq([k \in 1 .. Len(t) * NumRegions |-> k],
                               LAMBDA k : mask[Row(k)][Col(k)])
    IN  [j \in 1 .. Len(positions) |-> t[Row(positions[j])][Col(positions[j])]]

\* The mask itself, were the ~ of line 454 left out.
Same(mask) == mask

\* ~mask
Not(mask) == [i \in DOMAIN mask |-> [r \in Regions |-> ~ mask[i][r]]]

\* t.reshape(-1)
Reshape(t) == MaskedSelect(t, [i \in DOMAIN t |-> [r \in Regions |-> TRUE]])

\* A torchmetrics Precision or Recall object (num_classes=2, average=None):
\* the confusion counts of the positive class, with the number of update
\* calls it received and how many of them carried no entry.
NewMetric == [tp |-> 0, fp |-> 0, tn |-> 0, fn |-> 0, updates |-> 0, empty_updates |-> 0]

\* The confusion counts of one update call's inputs.
StatScores(preds, target) ==
    LET n == Len(preds)
        tp == Cardinality({k \in 1 .. n : preds[k] /\ target[k]})
        predicted == Cardinality({k \in 1 .. n : preds[k]})
        actual == Cardinality({k \in 1 .. n : target[k]})
    IN  [tp |-> tp, fp |-> predicted - tp, fn |-> actual - tp,
         tn |-> ((n - predicted) - actual) + tp, n |-> n]

\* metric(preds, target): one update call, stat_scores those of its inputs.
MetricUpdate(metric, stat_scores) ==
    [tp |-> metric.tp + stat_scores.tp,
     fp |-> metric.fp + stat_scores.fp,
     tn |-> metric.tn + stat_scores.tn,
     fn |-> metric.fn + stat_scores.fn,
     updates |-> metric.updates + 1,
     empty_updates |-> metric.empty_updates + (IF stat_scores.n = 0 THEN 1 ELSE 0)]

\* score.compute()[1] of a Precision / Recall object: the score of the
\* positive class; NaN when the class never occurred (no tp, fp or fn), 0.0
\* when only the denominator is zero.
MetricCompute(metric, name) ==
    LET denominator == IF name = "precision" THEN metric.tp + metric.fp
                                              ELSE metric.tp + metric.fn
    IN  IF metric.tp + metric.fp + metric.fn = 0 THEN NaN
        ELSE IF denominator = 0 THEN Float(0)
        ELSE TensorDiv(metric.tp, denominator)

MetricNames == {"precision", "recall"}
Subsets == {"all", "normal", "abnormal"}

\* Lines 446-467.  The precision and the recall object of a subset are
\* called with the same two tensors.
UpdateRegionSelectionMetrics(scores, selected_regions, region_has_sentence, region_is_abnormal) ==
    LET normal_selected_regions == MaskedSelect(selected_regions, Not(region_is_abnormal))
        normal_region_has_sentence ==
            MaskedSelect(region_has_sentence, Not(region_is_abnormal))
        abnormal_selected_regions == MaskedSelect(selected_regions, region_is_abnormal)
        abnormal_region_has_sentence == MaskedSelect(region_has_sentence, region_is_abnormal)
        inputs == [all |-> StatScores(Reshape(selected_regions),
                                      Reshape(region_has_sentence)),
                   normal |-> StatScores(normal_selected_regions,
                                         normal_region_has_sentence),
                   abnormal |-> StatScores(abnormal_selected_regions,
                                           abnormal_region_has_sentence)]
    IN  [subset \in Subsets |->
            [metric \in MetricNames |->
                MetricUpdate(scores[subset][metric], inputs[subset])]]

\* The update, were the entries of all regions fed, detected or not.
UpdateRegionAbnormalMetricsOfAllRegions(scores, predicted_abnormal_regions, region_is_abnormal, class_detected) ==
    LET inputs == StatScores(Reshape(predicted_abnormal_regions), Reshape(region_is_abnormal))
    IN  [metric \in MetricNames |-> MetricUpdate(scores[metric], inputs)]

\* Lines 429-443.
UpdateRegionAbnormalMetrics(scores, predicted_abnormal_regions, region_is_abnormal, class_detected) ==
    LET detected_predicted_abnormal_regions ==
            MaskedSelect(predicted_abnormal_regions, class_detected)
        detected_region_is_abnormal == MaskedSelect(region_is_abnormal, class_detected)
        inputs == StatScores(detected_predicted_abnormal_regions,
                             detected_region_is_abnormal)
    IN  [metric \in MetricNames |-> MetricUpdate(scores[metric], inputs)]

\* ------------------------------------------------------ text-metric scores
\* Lines 360-362: the metrics of a subset, four BLEU objects and a BERTScore.
TextMetricNames == {"bleu_1", "bleu_2", "bleu_3", "bleu_4", "bert_score"}

\* An evaluate metric object: the predictions and references handed to it.
NewTextMetric == [predictions |-> <<>>, references |-> <<>>, add_batch_calls |-> 0]

\* score.add_batch(predictions=..., references=...)
AddBatch(score, predictions, references) ==
    [predictions |-> score.predictions \o predictions,
     references |-> score.references \o references,
     add_batch_calls |-> score.add_batch_calls + 1]

\* a[~mask], were the two subsets taken for one another.
BoolIndexNegated(a, mask) ==
    LET positions == SelectSeq([k \in 1 .. Len(a) |-> k], LAMBDA k : ~ mask[k])
    IN  [j \in 1 .. Len(positions) |-> a[positions[j]]]

\* a[mask] for a one-dimensional array a and a boolean array mask.
BoolIndex(a, mask) ==
    LET positions == SelectSeq([k \in 1 .. Len(a) |-> k], LAMBDA k : mask[k])
    IN  [j \in 1 .. Len(positions) |-> a[positions[j]]]

\* Lines 340-352.
GetRefSentencesForSelectedRegions(reference_sentences, selected_regions) ==
    MaskedSelect(reference_sentences, selected_regions)

\* Lines 297-316.
GetSentsForNormalAbnormalSelectedRegions(generated_sentences_for_selected_regions, reference_sentences_for_selected_regions, selected_regions, region_is_abnormal) ==
    LET selected_region_is_abnormal == MaskedSelect(region_is_abnormal, selected_regions)
        selected_region_is_normal ==
            [k \in DOMAIN selected_region_is_abnormal |-> ~ selected_region_is_abnormal[k]]
    IN  [gen_sents_for_normal_selected_regions |->
             BoolIndex(generated_sentences_for_selected_regions, selected_region_is_normal),
         gen_sents_for_abnormal_selected_regions |->
             BoolIndex(generated_sentences_for_selected_regions, selected_region_is_abnormal),
         ref_sents_for_normal_selected_regions |->
             BoolIndex(reference_sentences_for_selected_regions, selected_region_is_normal),
         ref_sents_for_abnormal_selected_regions |->
             BoolIndex(reference_sentences_for_selected_regions, selected_region_is_abnormal)]

\* Lines 319-337.
UpdateLanguageModelScores(scores, generated_sentences_for_selected_regions, reference_sentences_for_selected_regions, selected_regions, region_is_abnormal) ==
    LET sents == GetSentsForNormalAbnormalSelectedRegions(
                     generated_sentences_for_selected_regions,
                     reference_sentences_for_selected_regions,
                     selected_regions, region_is_abnormal)
    IN  [subset \in Subsets |->
            [metric \in TextMetricNames |->
                CASE subset = "all" ->
                        AddBatch(scores[subset][metric],
                                 generated_sentences_for_selected_regions,
                                 reference_sentences_for_selected_regions)
                  [] subset = "normal" ->
                        IF Len(sents.ref_sents_for_normal_selected_regions) # 0
                        THEN AddBatch(scores[subset][metric],
                                      sents.gen_sents_for_normal_selected_regions,
                                      sents.ref_sents_for_normal_selected_regions)
                        ELSE scores[subset][metric]
                  [] subset = "abnormal" ->
                        IF Len(sents.ref_sents_for_abnormal_selected_regions) # 0
                        THEN AddBatch(scores[subset][metric],
                                      sents.gen_sents_for_abnormal_selected_regions,
                                      sents.ref_sents_for_abnormal_selected_regions)
                        ELSE scores[subset][metric]]]

\* The pairs written, were the reference of line 294 written as it is.
WriteSentencesVerbatim(sentences) ==
    [k \in 1 .. Min(Len(sentences.generated_sentences), Len(sentences.reference_sentences)) |->
        [generated |-> sentences.generated_sentences[k],
         reference |-> sentences.reference_sentences[k]]]

\* Lines 281-294: the pairs of lines written, over zip(generated, reference).
WriteSentencesToFile(sentences) ==
    LET generated_sentences == sentences.generated_sentences
        reference_sentences == sentences.reference_sentences
    IN  [k \in 1 .. Min(Len(generated_sentences), Len(reference_sentences)) |->
            [generated |-> generated_sentences[k],
             reference |-> IF reference_sentences[k] # "#"
                           THEN reference_sentences[k] ELSE ""]]

FinalTextMetricNames ==
    {"bleu_1", "bleu_2", "bleu_3", "bleu_4",
     "bertscore_precision", "bertscore_recall", "bertscore_f1"}

\* Lines 261-278.  What score.compute returns is the library's: the result
\* is kept as the metric with the predictions and references it is over.
ComputeFinalLanguageModelScores(scores) ==
    [subset \in Subsets |->
        [metric \in FinalTextMetricNames |->
            LET score == IF metric \in TextMetricNames THEN scores[subset][metric]
                         ELSE scores[subset]["bert_score"]
            IN  [metric |-> metric,
                 predictions |-> score.predictions,
                 references |-> score.references]]]

\* ------------------------------------------------------------------ inputs
\* A row of scores: the probe regions carry the drawn values, the rest 0.0.
ScoreRows ==
    {[r \in Regions |-> IF r \in ProbeRegions THEN f[r] ELSE 0] :
        f \in [ProbeRegions -> 0 .. MaxScore]}

BatchImages == {1, 2}

RECURSIVE SeqsUpTo(_, _)
SeqsUpTo(S, n) ==
    IF n = 0 THEN {<<>>}
    ELSE LET shorter == SeqsUpTo(S, n - 1)
         IN  shorter \cup {Append(s, x) : s \in {t \in shorter : Len(t) = n - 1}, x \in S}

\* The region whose entries the validation images vary.
ValProbe == NumRegions - 1

PerRegion(probe_value, rest_value) ==
    [r \in Regions |-> IF r = ValProbe THEN probe_value ELSE rest_value]

UnitBox == <<0, 0, 1, 1>>
WideBox == <<0, 0, 2, 1>>         \* contains UnitBox
ShiftedBox == <<2, 0, 3, 1>>      \* to the right of UnitBox
DiagonalBox == <<3, 2, 4, 3>>     \* to the right of and below UnitBox
FarDiagonalBox == <<4, 2, 5, 3>>  \* further to the right of and below UnitBox

\* Images whose probe region has the given boxes and detected flag; every
\* other region is detected with its predicted box on its ground truth.
BoxImages(pred_boxes, gt_boxes, detected) ==
    {[top_region_boxes |-> PerRegion(p, UnitBox),
      gt_boxes |-> PerRegion(g, UnitBox),
      class_detected |-> PerRegion(d, TRUE),
      selected_regions |-> PerRegion(FALSE, FALSE),
      region_has_sentence |-> PerRegion(FALSE, FALSE),
      region_is_abnormal |-> PerRegion(FALSE, FALSE),
      predicted_abnormal_regions |-> PerRegion(FALSE, FALSE)] :
        p \in pred_boxes, g \in gt_boxes, d \in detected}

\* (selected, has_sentence, is_abnormal) of the probe region and of the rest.
ProbeDecisions == {<<TRUE, TRUE, TRUE>>, <<FALSE, TRUE, FALSE>>}
RestDecisions == {<<FALSE, FALSE, FALSE>>, <<TRUE, FALSE, TRUE>>}

DecisionImages ==
    {[top_region_boxes |-> PerRegion(UnitBox, UnitBox),
      gt_boxes |-> PerRegion(UnitBox, UnitBox),
      class_detected |-> PerRegion(TRUE, TRUE),
      selected_regions |-> PerRegion(p[1], q[1]),
      region_has_sentence |-> PerRegion(p[2], q[2]),
      region_is_abnormal |-> PerRegion(p[3], q[3]),
      predicted_abnormal_regions |-> PerRegion(FALSE, FALSE)] :
        p \in ProbeDecisions, q \in RestDecisions}

\* An image in which the detector detects the given regions only, every
\* predicted box on its ground truth.
DetectedImage(detected) ==
    [top_region_boxes |-> [r \in Regions |-> UnitBox],
     gt_boxes |-> [r \in Regions |-> UnitBox],
     class_detected |-> [r \in Regions |-> r \in detected],
     selected_regions |-> [r \in Regions |-> FALSE],
     region_has_sentence |-> [r \in Regions |-> FALSE],
     region_is_abnormal |-> [r \in Regions |-> FALSE],
     predicted_abnormal_regions |-> [r \in Regions |-> FALSE]]

DetectionImages == {DetectedImage({0, 1}), DetectedImage({0})}

ValImages(kind) ==
    CASE kind = "overlapping" -> BoxImages({UnitBox, WideBox}, {UnitBox, WideBox}, {TRUE})
      [] kind = "disjoint" -> BoxImages({UnitBox}, {ShiftedBox, DiagonalBox}, {TRUE})
      [] kind = "undetected" -> BoxImages({UnitBox}, {UnitBox}, BOOLEAN)
      [] kind = "routing" -> DecisionImages
      [] kind = "detections" -> DetectionImages
      [] kind = "apart" -> BoxImages({UnitBox}, {UnitBox, FarDiagonalBox}, BOOLEAN)

\* A batch of the dataloader with what the model returns for it (line 669).
MakeBatch(images) ==
    [size |-> Len(images),
     top_region_boxes |-> [i \in 1 .. Len(images) |-> images[i].top_region_boxes],
     gt_boxes |-> [i \in 1 .. Len(images) |-> images[i].gt_boxes],
     class_detected |-> [i \in 1 .. Len(images) |-> images[i].class_detected],
     selected_regions |-> [i \in 1 .. Len(images) |-> images[i].selected_regions],
     region_has_sentence |-> [i \in 1 .. Len(images) |-> images[i].region_has_sentence],
     region_is_abnormal |-> [i \in 1 .. Len(images) |-> images[i].region_is_abnormal],
     predicted_abnormal_regions |->
         [i \in 1 .. Len(images) |-> images[i].predicted_abnormal_regions],
     obj_detector_loss_dict |-> <<Float(1), Float(1), Float(1), Float(1)>>,
     classifier_loss_region_selection |-> Float(1),
     classifier_loss_region_abnormal |-> Float(1),
     language_model_loss |-> Float(1)]

\* An image whose probe region is abnormal, has a sentence, is selected and
\* predicted abnormal, with a predicted box twice its ground truth; the other
\* regions have a sentence and are not selected.
DecidedImage ==
    [top_region_boxes |-> PerRegion(WideBox, UnitBox),
     gt_boxes |-> PerRegion(UnitBox, UnitBox),
     class_detected |-> PerRegion(TRUE, TRUE),
     selected_regions |-> PerRegion(TRUE, FALSE),
     region_has_sentence |-> PerRegion(TRUE, TRUE),
     region_is_abnormal |-> PerRegion(TRUE, FALSE),
     predicted_abnormal_regions |-> PerRegion(TRUE, FALSE)]

\* Batches of one image that differ in the language model loss the model
\* returns for them; the loss of a diverged model is NaN.
LossBatches ==
    {[MakeBatch(<<image>>) EXCEPT !.language_model_loss = loss] :
        image \in {DetectedImage({0}), DecidedImage}, loss \in {Float(1), Float(2), NaN}}

\* Batches of one to MaxBatchSize images that differ in the language model
\* loss the model returns for them.
SizedBatches ==
    {[MakeBatch([i \in 1 .. batch_size |-> DetectedImage({0})])
          EXCEPT !.language_model_loss = loss] :
        batch_size \in 1 .. MaxBatchSize, loss \in {Float(1), Float(2), NaN}}

\* Batches of one image whose probe region is detected or not, predicted
\* abnormal or not, and abnormal or not; the other regions are detected,
\* normal and predicted normal.
AbnormalBatches ==
    {MakeBatch(<<[DetectedImage(Regions) EXCEPT
                     !.class_detected = PerRegion(detected, TRUE),
                     !.predicted_abnormal_regions = PerRegion(predicted, FALSE),
                     !.region_is_abnormal = PerRegion(actual, FALSE)]>>) :
        detected \in BOOLEAN, predicted \in BOOLEAN, actual \in BOOLEAN}

Batches(kind) ==
    IF kind = "losses" THEN LossBatches
    ELSE IF kind = "sized" THEN SizedBatches
    ELSE IF kind = "abnormal" THEN AbnormalBatches
    ELSE {MakeBatch(images) : images \in SeqsUpTo(ValImages(kind), MaxBatchSize) \ {<<>>}}

NoBatch == [size |-> 0]

\* An image of evaluate_language_model: the regions the model selects, those
\* of them that are abnormal, and the reference of the selected regions;
\* a region without reference sentence carries '#'.
LmImage(selected, abnormal, reference) ==
    [selected_regions |-> [r \in Regions |-> r \in selected],
     region_is_abnormal |-> [r \in Regions |-> r \in abnormal],
     reference_sentences |-> [r \in Regions |-> IF r \in selected THEN reference ELSE "#"]]

\* An image with a normal and an abnormal selected region, each with its own
\* reference sentence.
LmMixedImage ==
    [selected_regions |-> [r \in Regions |-> r \in {0, NumRegions - 1}],
     region_is_abnormal |-> [r \in Regions |-> r = NumRegions - 1],
     reference_sentences |->
         [r \in Regions |-> IF r = 0 THEN "no effusion"
                            ELSE IF r = NumRegions - 1 THEN "opacity noted" ELSE "#"]]

LmImages ==
    {LmImage({0}, {0}, "opacity noted"),
     LmImage({NumRegions - 1}, {}, "#"),
     LmImage({}, {}, "#"),
     LmMixedImage}

\* tokenizer.batch_decode(beam_search_output), line 389: one sentence for
\* every selected region of the batch.
BatchDecode(num_regions_selected_in_batch) ==
    SubSeq(<<"generated first", "generated second", "generated third", "generated fourth">>,
           1, num_regions_selected_in_batch)

\* A batch of the dataloader with what model.generate returns for it
\* (lines 378-389).
MakeLmBatch(images) ==
    LET selected_regions == [i \in 1 .. Len(images) |-> images[i].selected_regions]
    IN  [size |-> Len(images),
         reference_sentences |-> [i \in 1 .. Len(images) |-> images[i].reference_sentences],
         region_is_abnormal |-> [i \in 1 .. Len(images) |-> images[i].region_is_abnormal],
         selected_regions |-> selected_regions,
         generated_sentences_for_selected_regions |->
             BatchDecode(Len(MaskedSelect(selected_regions, selected_regions)))]

LmBatches == {MakeLmBatch(images) : images \in UNION {[1 .. n -> LmImages] : n \in BatchImages}}

LossTypes == <<"total_loss", "obj_detector_loss", "region_selection_loss",
               "region_abnormal_loss", "language_model_loss">>

\* -------------------------------------------------------------------- Init
SelIdle ==
    /\ sel_pc = "idle"
    /\ pred_scores = <<>>
    /\ region_features = <<>>
    /\ boxes_per_image = <<>>
    /\ num_img = 1
    /\ top_region_features_per_image = <<>>
    /\ class_not_predicted_per_image = <<>>

\* Lines 556-628: the accumulators of a pass, all created anew.
ValStart ==
    /\ num_batch = 0
    /\ batch = NoBatch
    /\ val_losses_dict = [loss_type \in {LossTypes[k] : k \in 1 .. 5} |-> Float(0)]
    /\ num_images = 0
    /\ obj_detector_scores =
         [sum_intersection_area_per_region |-> [r \in Regions |-> 0],
          sum_union_area_per_region |-> [r \in Regions |-> 0],
          sum_region_detected |-> [r \in Regions |-> 0]]
    /\ region_selection_scores =
         [subset \in Subsets |-> [metric \in MetricNames |-> NewMetric]]
    /\ region_abnormal_scores = [metric \in MetricNames |-> NewMetric]
    /\ entries_seen = [r \in Regions |-> {}]

\* No pass has run before this one.
NoEarlierPass == [tracing |-> FALSE, batch_outputs |-> <<>>, results |-> <<>>]

ValIdle ==
    /\ val_pc = "idle"
    /\ val_dl = [kind |-> "none", len |-> 0]
    /\ ValStart
    /\ earlier_pass = NoEarlierPass

\* Lines 357-364: the text metrics and the sentences to save, all created anew.
LmStart ==
    /\ lm_num_batch = 0
    /\ lm_batch = NoBatch
    /\ language_model_scores =
         [subset \in Subsets |-> [metric \in TextMetricNames |-> NewTextMetric]]
    /\ gen_and_ref_sentences_to_save_to_file =
         [generated_sentences |-> <<>>, reference_sentences |-> <<>>]
    /\ generated_sentences_txt_file = <<>>
    /\ num_plots = 0

LmIdle ==
    /\ lm_pc = "idle"
    /\ lm_dl = [len |-> 0]
    /\ lm_config = [generation |-> 0, saving |-> 0, plotting |-> 0]
    /\ LmStart

EvalIdle ==
    /\ eval_pc = "idle"
    /\ run_params = [epoch |-> 0]
    /\ train_losses_dict = [loss_type \in {LossTypes[k] : k \in 1 .. 5} |-> Float(0)]
    /\ model_state_dict = 0
    /\ writer = <<>>
    /\ lr_scheduler = <<>>
    /\ evaluations = [initial |-> run_params, passes |-> <<>>]

InitSel ==
    /\ ValIdle
    /\ LmIdle
    /\ EvalIdle
    /\ sel_pc = "loop"
    /\ pred_scores \in SeqsUpTo(ScoreRows, MaxProposals)
    /\ region_features = [k \in 1 .. Len(pred_scores) |-> k]
    /\ \E b \in BatchImages :
         boxes_per_image \in
            {c \in [1 .. b -> 0 .. Len(pred_scores)] : SumSeq(c) = Len(pred_scores)}
    /\ num_img = 1
    /\ top_region_features_per_image = <<>>
    /\ class_not_predicted_per_image = <<>>

\* One iteration of the loop of lines 92-119.  torch.argmax over dim 0 of a
\* tensor with no rows raises IndexError (line 103).
SelImage ==
    /\ sel_pc = "loop"
    /\ num_img <= Len(boxes_per_image)
    /\ LET pred_scores_image == SplitRows(pred_scores, boxes_per_image, num_img)
           region_features_image == SplitRows(region_features, boxes_per_image, num_img)
       IN  IF Len(pred_scores_image) = 0
           THEN /\ sel_pc' = "raised"
                /\ UNCHANGED <<num_img, top_region_features_per_image,
                               class_not_predicted_per_image>>
           ELSE /\ LET top == TopRegionSelection(pred_scores_image, region_features_image)
                   IN  /\ top_region_features_per_image' =
                            Append(top_region_features_per_image, top.top_region_features)
                       /\ class_not_predicted_per_image' =
                            Append(class_not_predicted_per_image, top.class_not_predicted)
                /\ num_img' = num_img + 1
                /\ sel_pc' = "loop"
    /\ UNCHANGED <<pred_scores, region_features, boxes_per_image>>
    /\ UNCHANGED val_vars
    /\ UNCHANGED lm_vars
    /\ UNCHANGED eval_vars

\* Lines 121-126: stack the per-image results and return.
SelReturn ==
    /\ sel_pc = "loop"
    /\ num_img > Len(boxes_per_image)
    /\ sel_pc' = "returned"
    /\ UNCHANGED <<pred_scores, region_features, boxes_per_image, num_img,
                   top_region_features_per_image, class_not_predicted_per_image>>
    /\ UNCHANGED val_vars
    /\ UNCHANGED lm_vars
    /\ UNCHANGED eval_vars

NextSel == SelImage \/ SelReturn

SpecSel == InitSel /\ [][NextSel]_vars

\* One image with MaxProposals + 1 proposals, each probability of a probe
\* region 0.0 or the largest one: proposals tie on the regions they predict.
InitSelTies ==
    /\ ValIdle
    /\ LmIdle
    /\ EvalIdle
    /\ sel_pc = "loop"
    /\ pred_scores \in [1 .. MaxProposals + 1 ->
                            {row \in ScoreRows : \A r \in ProbeRegions : row[r] \in {0, MaxScore}}]
    /\ region_features = [k \in 1 .. Len(pred_scores) |-> k]
    /\ boxes_per_image = <<Len(pred_scores)>>
    /\ num_img = 1
    /\ top_region_features_per_image = <<>>
    /\ class_not_predicted_per_image = <<>>

SpecSelTies == InitSelTies /\ [][NextSel]_vars

\* ---------------------------------------- get_val_losses_and_other_metrics
\* The state at the start of the loop of line 631, for a dataloader of one of
\* the given kinds.
InitVal(kinds) ==
    /\ SelIdle
    /\ LmIdle
    /\ EvalIdle
    /\ earlier_pass = NoEarlierPass
    /\ val_pc = "loop"
    /\ val_dl \in [kind : kinds, len : 0 .. MaxBatches]
    /\ ValStart

InitValBoxes == InitVal({"overlapping", "disjoint", "undetected", "detections"})

InitValDecisions == InitVal({"routing"})

\* Line 631 and the forward pass of line 669: the dataloader yields the next
\* batch and the model returns its outputs for it.
ValNextBatch ==
    /\ val_pc = "loop"
    /\ num_batch < val_dl.len
    /\ batch' \in IF earlier_pass.results # <<>>
                   THEN {earlier_pass.batch_outputs[num_batch + 1]}
                   ELSE Batches(val_dl.kind)
    /\ earlier_pass' = IF earlier_pass.tracing /\ earlier_pass.results = <<>>
                       THEN [earlier_pass EXCEPT !.batch_outputs = Append(@, batch')]
                       ELSE earlier_pass
    /\ val_pc' = "body"
    /\ UNCHANGED <<val_dl, num_batch, val_losses_dict, num_images, obj_detector_scores,
                   region_selection_scores, region_abnormal_scores, entries_seen>>
    /\ UNCHANGED sel_vars
    /\ UNCHANGED lm_vars
    /\ UNCHANGED eval_vars

\* Lines 672-683.
ListOfLosses(b) ==
    LET obj_detector_losses ==
            FloatAdd(FloatAdd(FloatAdd(b.obj_detector_loss_dict[1], b.obj_detector_loss_dict[2]),
                              b.obj_detector_loss_dict[3]),
                     b.obj_detector_loss_dict[4])
        total_loss ==
            FloatAdd(FloatAdd(FloatAdd(obj_detector_losses, b.classifier_loss_region_selection),
                              b.classifier_loss_region_abnormal),
                     b.language_model_loss)
    IN  <<total_loss, obj_detector_losses, b.classifier_loss_region_selection,
          b.classifier_loss_region_abnormal, b.language_model_loss>>

\* Lines 642-643 and 671-696: the rest of the loop body.
ValUpdate ==
    /\ val_pc = "body"
    /\ num_images' = num_images + batch.size
    /\ val_losses_dict' =
         [loss_type \in DOMAIN val_losses_dict |->
             LET k == CHOOSE j \in 1 .. 5 : LossTypes[j] = loss_type
             IN  FloatAdd(val_losses_dict[loss_type],
                          FloatTimes(ListOfLosses(batch)[k], batch.size))]
    /\ obj_detector_scores' = UpdateObjectDetectorMetrics(obj_detector_scores, batch)
    /\ region_selection_scores' =
         UpdateRegionSelectionMetrics(region_selection_scores, batch.selected_regions,
                                      batch.region_has_sentence, batch.region_is_abnormal)
    /\ region_abnormal_scores' =
         UpdateRegionAbnormalMetrics(region_abnormal_scores,
                                     batch.predicted_abnormal_regions,
                                     batch.region_is_abnormal, batch.class_detected)
    /\ entries_seen' =
         [r \in Regions |->
             entries_seen[r] \cup
                 {<<batch.top_region_boxes[i][r], batch.gt_boxes[i][r],
                    batch.class_detected[i][r]>> : i \in 1 .. batch.size}]
    /\ num_batch' = num_batch + 1
    /\ batch' = NoBatch
    /\ val_pc' = "loop"
    /\ UNCHANGED <<val_dl, earlier_pass>>
    /\ UNCHANGED sel_vars
    /\ UNCHANGED lm_vars
    /\ UNCHANGED eval_vars

\* torch.sum(t) of a [36] tensor of floats, over the regions below n.
RECURSIVE TensorSum(_, _)
TensorSum(t, n) == IF n = 0 THEN Float(0) ELSE FloatAdd(TensorSum(t, n - 1), t[n - 1])

\* Lines 702-709.
AverageObjectDetectorScores(scores, n_images) ==
    LET avg_detections == [r \in Regions |-> TensorDiv(scores.sum_region_detected[r], n_images)]
    IN  [sum_intersection_area_per_region |-> scores.sum_intersection_area_per_region,
         sum_union_area_per_region |-> scores.sum_union_area_per_region,
         sum_region_detected |-> scores.sum_region_detected,
         avg_iou_per_region |->
             [r \in Regions |-> TensorDiv(scores.sum_intersection_area_per_region[r],
                                          scores.sum_union_area_per_region[r])],
         avg_num_detected_regions_per_image |-> TensorSum(avg_detections, NumRegions),
         avg_detections_per_region |-> avg_detections]

\* Lines 698-720, after the loop.  The losses are Python floats: dividing
\* them by len(val_dl) = 0 raises ZeroDivisionError at line 700, before any
\* score is reduced.
ValReduce ==
    /\ val_pc = "loop"
    /\ num_batch = val_dl.len
    /\ IF val_dl.len = 0
       THEN /\ val_pc' = "raised"
            /\ UNCHANGED <<val_losses_dict, obj_detector_scores, region_selection_scores,
                           region_abnormal_scores>>
       ELSE /\ val_losses_dict' =
                 [loss_type \in DOMAIN val_losses_dict |->
                     FloatOver(val_losses_dict[loss_type], val_dl.len)]
            /\ obj_detector_scores' =
                 AverageObjectDetectorScores(obj_detector_scores, num_images)
            /\ region_selection_scores' =
                 [subset \in Subsets |->
                     [metric \in MetricNames |->
                         MetricCompute(region_selection_scores[subset][metric], metric)]]
            /\ region_abnormal_scores' =
                 [metric \in MetricNames |->
                     MetricCompute(region_abnormal_scores[metric], metric)]
            /\ val_pc' = "reduced"
    /\ UNCHANGED <<val_dl, num_batch, batch, num_images, entries_seen, earlier_pass>>
    /\ UNCHANGED sel_vars
    /\ UNCHANGED lm_vars
    /\ UNCHANGED eval_vars

NextVal == ValNextBatch \/ ValUpdate \/ ValReduce

\* The call, were the accumulators of the pass before kept.
ValCalledKeepingAccumulators ==
    /\ val_pc' = "loop"
    /\ num_batch' = 0
    /\ batch' = NoBatch
    /\ val_losses_dict' = val_losses_dict
    /\ num_images' = num_images
    /\ obj_detector_scores' =
         [sum_intersection_area_per_region |->
              obj_detector_scores.sum_intersection_area_per_region,
          sum_union_area_per_region |-> obj_detector_scores.sum_union_area_per_region,
          sum_region_detected |-> obj_detector_scores.sum_region_detected]
    /\ region_selection_scores' =
         [subset \in Subsets |-> [metric \in MetricNames |-> NewMetric]]
    /\ region_abnormal_scores' = [metric \in MetricNames |-> NewMetric]
    /\ entries_seen' = [r \in Regions |-> {}]

\* Lines 543-628: a call of get_val_losses_and_other_metrics creates every
\* accumulator anew and enters the loop.
ValCalled ==
    /\ val_pc' = "loop"
    /\ num_batch' = 0
    /\ batch' = NoBatch
    /\ val_losses_dict' = [loss_type \in {LossTypes[k] : k \in 1 .. 5} |-> Float(0)]
    /\ num_images' = 0
    /\ obj_detector_scores' =
         [sum_intersection_area_per_region |-> [r \in Regions |-> 0],
          sum_union_area_per_region |-> [r \in Regions |-> 0],
          sum_region_detected |-> [r \in Regions |-> 0]]
    /\ region_selection_scores' =
         [subset \in Subsets |-> [metric \in MetricNames |-> NewMetric]]
    /\ region_abnormal_scores' = [metric \in MetricNames |-> NewMetric]
    /\ entries_seen' = [r \in Regions |-> {}]

\* Line 720: what a pass returns.
ReducedResults ==
    <<val_losses_dict, obj_detector_scores, region_selection_scores, region_abnormal_scores>>

\* get_val_losses_and_other_metrics is called again on the same val_dl, the
\* model returning the same outputs for its batches.
ValRunAgain ==
    /\ val_pc = "reduced"
    /\ earlier_pass.tracing
    /\ earlier_pass.results = <<>>
    /\ earlier_pass' = [earlier_pass EXCEPT !.results = <<ReducedResults>>]
    /\ ValCalled
    /\ UNCHANGED val_dl
    /\ UNCHANGED sel_vars
    /\ UNCHANGED lm_vars
    /\ UNCHANGED eval_vars

InitValTwice ==
    /\ SelIdle
    /\ LmIdle
    /\ EvalIdle
    /\ val_pc = "loop"
    /\ val_dl \in [kind : {"losses", "detections"}, len : 0 .. MaxBatches]
    /\ ValStart
    /\ earlier_pass = [tracing |-> TRUE, batch_outputs |-> <<>>, results |-> <<>>]

NextValTwice == NextVal \/ ValRunAgain

\* Two validation passes over the same batch outputs.
SpecValTwice == InitValTwice /\ [][NextValTwice]_vars

\* A validation pass over batches that differ in their boxes.
SpecValBoxes == InitValBoxes /\ [][NextVal]_vars

\* A validation pass over batches that differ in the decisions on the regions.
SpecValDecisions == InitValDecisions /\ [][NextVal]_vars

\* ------------------------------------------------- evaluate_language_model
InitLm ==
    /\ SelIdle
    /\ ValIdle
    /\ EvalIdle
    /\ lm_pc = "loop"
    /\ lm_dl \in [len : 0 .. MaxBatches]
    /\ lm_config \in [generation : 0 .. MaxBatches, saving : 0 .. MaxSaved,
                       plotting : 0 .. MaxPlotted]
    /\ LmStart

\* Whether the loop goes on, were the break of line 375 taken at
\* num_batch > the bound.
LmLoopContinuesInclusive ==
    lm_num_batch < lm_dl.len /\ lm_num_batch <= lm_config.generation

\* Whether the loop of line 374 goes on: val_dl has a next batch and the
\* break of lines 375-376 is not taken.
LmLoopContinues ==
    lm_num_batch < lm_dl.len /\ lm_num_batch < lm_config.generation

\* Lines 374-389: the dataloader yields a batch and the model generates.
LmNextBatch ==
    /\ lm_pc = "loop"
    /\ LmLoopContinues
    /\ lm_batch' \in LmBatches
    /\ lm_pc' = "body"
    /\ UNCHANGED <<lm_dl, lm_config, lm_num_batch, language_model_scores,
                   gen_and_ref_sentences_to_save_to_file, generated_sentences_txt_file,
                   num_plots>>
    /\ UNCHANGED <<sel_vars, val_vars>>
    /\ UNCHANGED eval_vars

\* Lines 391-419: the rest of the loop body.
LmUpdate ==
    /\ lm_pc = "body"
    /\ LET generated_sentences_for_selected_regions ==
               lm_batch.generated_sentences_for_selected_regions
           reference_sentences_for_selected_regions ==
               GetRefSentencesForSelectedRegions(lm_batch.reference_sentences,
                                                 lm_batch.selected_regions)
       IN  /\ gen_and_ref_sentences_to_save_to_file' =
                 IF lm_num_batch < lm_config.saving
                 THEN [generated_sentences |->
                           gen_and_ref_sentences_to_save_to_file.generated_sentences
                               \o generated_sentences_for_selected_regions,
                       reference_sentences |->
                           gen_and_ref_sentences_to_save_to_file.reference_sentences
                               \o reference_sentences_for_selected_regions]
                 ELSE gen_and_ref_sentences_to_save_to_file
           /\ language_model_scores' =
                 UpdateLanguageModelScores(language_model_scores,
                                           generated_sentences_for_selected_regions,
                                           reference_sentences_for_selected_regions,
                                           lm_batch.selected_regions,
                                           lm_batch.region_is_abnormal)
    /\ num_plots' = IF lm_num_batch < lm_config.plotting THEN num_plots + 1 ELSE num_plots
    /\ lm_num_batch' = lm_num_batch + 1
    /\ lm_batch' = NoBatch
    /\ lm_pc' = "loop"
    /\ UNCHANGED <<lm_dl, lm_config, generated_sentences_txt_file>>
    /\ UNCHANGED <<sel_vars, val_vars>>
    /\ UNCHANGED eval_vars

\* Line 421, once the loop is left.
LmWriteSentences ==
    /\ lm_pc = "loop"
    /\ ~ LmLoopContinues
    /\ generated_sentences_txt_file' =
         WriteSentencesToFile(gen_and_ref_sentences_to_save_to_file)
    /\ lm_pc' = "written"
    /\ UNCHANGED <<lm_dl, lm_config, lm_num_batch, lm_batch, language_model_scores,
                   gen_and_ref_sentences_to_save_to_file, num_plots>>
    /\ UNCHANGED <<sel_vars, val_vars>>
    /\ UNCHANGED eval_vars

\* Lines 423-426.
LmComputeFinalScores ==
    /\ lm_pc = "written"
    /\ language_model_scores' = ComputeFinalLanguageModelScores(language_model_scores)
    /\ lm_pc' = "returned"
    /\ UNCHANGED <<lm_dl, lm_config, lm_num_batch, lm_batch,
                   gen_and_ref_sentences_to_save_to_file, generated_sentences_txt_file,
                   num_plots>>
    /\ UNCHANGED <<sel_vars, val_vars>>
    /\ UNCHANGED eval_vars

NextLm == LmNextBatch \/ LmUpdate \/ LmWriteSentences \/ LmComputeFinalScores

SpecLm == InitLm /\ [][NextLm]_vars

InitValApart == InitVal({"apart"})

\* A validation pass over batches whose predicted box is on its ground truth
\* or far from it in both axes.
SpecValApart == InitValApart /\ [][NextVal]_vars

\* One validation pass whose batches are recorded as they are fed.
InitValRecorded ==
    /\ SelIdle
    /\ LmIdle
    /\ EvalIdle
    /\ val_pc = "loop"
    /\ val_dl \in [kind : {"losses"}, len : 0 .. MaxBatches]
    /\ ValStart
    /\ earlier_pass = [tracing |-> TRUE, batch_outputs |-> <<>>, results |-> <<>>]

SpecValRecorded == InitValRecorded /\ [][NextVal]_vars

\* One validation pass over recorded batches of different sizes and losses.
InitValSized ==
    /\ SelIdle
    /\ LmIdle
    /\ EvalIdle
    /\ val_pc = "loop"
    /\ val_dl \in [kind : {"sized"}, len : 0 .. MaxBatches]
    /\ ValStart
    /\ earlier_pass = [tracing |-> TRUE, batch_outputs |-> <<>>, results |-> <<>>]

SpecValSized == InitValSized /\ [][NextVal]_vars

\* One validation pass over recorded batches that differ in the detection
\* and the abnormality decision of a region.
InitValAbnormal ==
    /\ SelIdle
    /\ LmIdle
    /\ EvalIdle
    /\ val_pc = "loop"
    /\ val_dl \in [kind : {"abnormal"}, len : 0 .. MaxBatches]
    /\ ValStart
    /\ earlier_pass = [tracing |-> TRUE, batch_outputs |-> <<>>, results |-> <<>>]

SpecValAbnormal == InitValAbnormal /\ [][NextVal]_vars

\* ---------------------------------------------------------- evaluate_model
PositiveInfinity == [kind |-> "inf", num |-> 1, den |-> 0]

\* f"{x:.3f}": x rounded to thousandths (no loss used here lies halfway
\* between two of them).
Format3f(x) ==
    IF x.kind = "num"
    THEN [kind |-> "num", thousandths |-> (2000 * x.num + x.den) \div (2 * x.den)]
    ELSE [kind |-> x.kind, thousandths |-> x.num]

\* Lines 776-779.
BestModelSavePath(weights_folder_path, lowest_val_loss, best_epoch) ==
    [folder |-> weights_folder_path,
     val_loss |-> Format3f(lowest_val_loss),
     epoch |-> best_epoch]

\* deepcopy(model.state_dict()): the weights as they are at the call.
DeepCopy(state_dict) == state_dict

\* run_params at the first evaluation of a run (no best model yet: the
\* fields are None, <<>> here) and at a later one, whose best loss so far
\* is 7.5 at epoch 1.
RunParams ==
    {[steps_taken |-> 2, epoch |-> 3, weights_folder_path |-> "weights",
      lowest_val_loss |-> PositiveInfinity, best_epoch |-> <<>>,
      best_model_save_path |-> <<>>, best_model_state |-> <<>>],
     [steps_taken |-> 2, epoch |-> 3, weights_folder_path |-> "weights",
      lowest_val_loss |-> TensorDiv(15, 2), best_epoch |-> <<1>>,
      best_model_save_path |-> <<BestModelSavePath("weights", TensorDiv(15, 2), 1)>>,
      best_model_state |-> <<1>>]}

\* evaluate_model is called: val_dl, run_params, the summed train losses and
\* the model are its arguments.
InitEval ==
    /\ SelIdle
    /\ val_pc = "idle"
    /\ val_dl \in [kind : {"losses"}, len : 0 .. MaxBatches]
    /\ ValStart
    /\ earlier_pass = NoEarlierPass
    /\ lm_pc = "idle"
    /\ lm_dl = [len |-> val_dl.len]
    /\ lm_config \in [generation : 0 .. 1, saving : {MaxSaved}, plotting : {MaxPlotted}]
    /\ LmStart
    /\ eval_pc = "called"
    /\ run_params \in RunParams
    /\ train_losses_dict = [loss_type \in {LossTypes[k] : k \in 1 .. 5} |-> Float(4)]
    /\ model_state_dict = 2
    /\ writer = <<>>
    /\ lr_scheduler = <<>>
    /\ evaluations = [initial |-> run_params, passes |-> <<>>]

\* Lines 736-749: the train losses are normalised and
\* get_val_losses_and_other_metrics is called.
EvalCallVal ==
    /\ eval_pc = "called"
    /\ train_losses_dict' =
         [loss_type \in DOMAIN train_losses_dict |->
             FloatOver(train_losses_dict[loss_type], run_params.steps_taken)]
    /\ ValCalled
    /\ eval_pc' = "validating"
    /\ UNCHANGED <<val_dl, earlier_pass>>
    /\ UNCHANGED <<run_params, model_state_dict, writer, lr_scheduler, evaluations>>
    /\ UNCHANGED sel_vars
    /\ UNCHANGED lm_vars

\* Lines 744-749: the ZeroDivisionError of line 700 is not caught.
EvalValRaised ==
    /\ eval_pc = "validating"
    /\ val_pc = "raised"
    /\ eval_pc' = "raised"
    /\ UNCHANGED <<run_params, train_losses_dict, model_state_dict, writer, lr_scheduler, evaluations>>
    /\ UNCHANGED <<sel_vars, val_vars, lm_vars>>

\* Line 751 and lines 357-370: evaluate_language_model is called and creates
\* its text metrics anew.
EvalCallLm ==
    /\ eval_pc = "validating"
    /\ val_pc = "reduced"
    /\ eval_pc' = "generating"
    /\ lm_pc' = "loop"
    /\ lm_num_batch' = 0
    /\ lm_batch' = NoBatch
    /\ language_model_scores' =
         [subset \in Subsets |-> [metric \in TextMetricNames |-> NewTextMetric]]
    /\ gen_and_ref_sentences_to_save_to_file' =
         [generated_sentences |-> <<>>, reference_sentences |-> <<>>]
    /\ generated_sentences_txt_file' = <<>>
    /\ num_plots' = 0
    /\ UNCHANGED <<lm_dl, lm_config>>
    /\ UNCHANGED <<run_params, train_losses_dict, model_state_dict, writer, lr_scheduler, evaluations>>
    /\ UNCHANGED <<sel_vars, val_vars>>

\* Lines 391-407: an add_batch call of update_language_model_scores raises;
\* nothing catches it in the loop body.
LmAddBatchRaises ==
    /\ eval_pc = "generating"
    /\ lm_pc = "body"
    /\ lm_pc' = "raised"
    /\ UNCHANGED <<lm_dl, lm_config, lm_num_batch, lm_batch, language_model_scores,
                   gen_and_ref_sentences_to_save_to_file, generated_sentences_txt_file,
                   num_plots>>
    /\ UNCHANGED <<sel_vars, val_vars>>
    /\ UNCHANGED eval_vars

\* Lines 261-278 and 424: a compute call of
\* compute_final_language_model_scores raises; nothing catches it.
LmComputeRaises ==
    /\ eval_pc = "generating"
    /\ lm_pc = "written"
    /\ lm_pc' = "raised"
    /\ UNCHANGED <<lm_dl, lm_config, lm_num_batch, lm_batch, language_model_scores,
                   gen_and_ref_sentences_to_save_to_file, generated_sentences_txt_file,
                   num_plots>>
    /\ UNCHANGED <<sel_vars, val_vars>>
    /\ UNCHANGED eval_vars

\* What write_all_losses_and_scores_to_tensorboard writes (lines 755-765).
Report ==
    [train_losses_dict |-> train_losses_dict,
     val_losses_dict |-> val_losses_dict,
     obj_detector_scores |-> obj_detector_scores,
     region_selection_scores |-> region_selection_scores,
     region_abnormal_scores |-> region_abnormal_scores,
     language_model_scores |-> language_model_scores]

\* Line 751, were the exception of evaluate_language_model caught and the
\* pass carried on with the scores at hand.
EvalLmRaisedAndCaught ==
    /\ eval_pc = "generating"
    /\ lm_pc = "raised"
    /\ writer' = Append(writer, Report)
    /\ eval_pc' = "reported"
    /\ UNCHANGED <<run_params, train_losses_dict, model_state_dict, lr_scheduler,
                   evaluations>>
    /\ UNCHANGED <<sel_vars, val_vars, lm_vars>>

\* Line 751: the exception of evaluate_language_model is not caught:
\* evaluate_model is left at once.
EvalLmRaised ==
    /\ eval_pc = "generating"
    /\ lm_pc = "raised"
    /\ eval_pc' = "raised"
    /\ UNCHANGED <<run_params, train_losses_dict, model_state_dict, writer, lr_scheduler, evaluations>>
    /\ UNCHANGED <<sel_vars, val_vars, lm_vars>>

\* Lines 753-765.
EvalWriteReport ==
    /\ eval_pc = "generating"
    /\ lm_pc = "returned"
    /\ writer' = Append(writer, Report)
    /\ eval_pc' = "reported"
    /\ UNCHANGED <<run_params, train_losses_dict, model_state_dict, lr_scheduler,
                   evaluations>>
    /\ UNCHANGED <<sel_vars, val_vars, lm_vars>>

\* The test of line 773, were it total_val_loss <= lowest_val_loss.
IsNewBestOrEqual(total_val_loss, lowest_val_loss) ==
    \/ FloatLess(total_val_loss, lowest_val_loss)
    \/ (total_val_loss.kind # "nan" /\ total_val_loss = lowest_val_loss)

\* The test of line 773, were the record replaced at every pass.
IsNewBestEveryPass(total_val_loss, lowest_val_loss) == TRUE

\* The test of line 773.
IsNewBest(total_val_loss, lowest_val_loss) == FloatLess(total_val_loss, lowest_val_loss)

\* Lines 767-783.
EvalDecide ==
    /\ eval_pc = "reported"
    /\ LET total_val_loss == val_losses_dict["total_loss"]
       IN  /\ lr_scheduler' = Append(lr_scheduler, total_val_loss)
           /\ evaluations' =
                 [evaluations EXCEPT
                     !.passes = Append(@, [epoch |-> run_params.epoch,
                                           total_val_loss |-> total_val_loss])]
           /\ run_params' =
                 IF IsNewBest(total_val_loss, run_params.lowest_val_loss)
                 THEN [run_params EXCEPT
                          !.lowest_val_loss = total_val_loss,
                          !.best_epoch = <<run_params.epoch>>,
                          !.best_model_save_path =
                              <<BestModelSavePath(run_params.weights_folder_path,
                                                  total_val_loss, run_params.epoch)>>,
                          !.best_model_state = <<DeepCopy(model_state_dict)>>]
                 ELSE run_params
    /\ eval_pc' = "returned"
    /\ UNCHANGED <<train_losses_dict, model_state_dict, writer>>
    /\ UNCHANGED <<sel_vars, val_vars, lm_vars>>

NextEval ==
    \/ EvalCallVal
    \/ NextVal
    \/ EvalValRaised
    \/ EvalCallLm
    \/ NextLm
    \/ LmAddBatchRaises
    \/ LmComputeRaises
    \/ EvalLmRaised
    \/ EvalWriteReport
    \/ EvalDecide

\* One call of evaluate_model.
SpecEval == InitEval /\ [][NextEval]_vars

\* The calls of evaluate_model a run makes at most.
MaxEvaluations == 2

\* A run whose val_dl has one batch and whose configuration generates no
\* sentence.
InitEvalRuns ==
    /\ SelIdle
    /\ val_pc = "idle"
    /\ val_dl = [kind |-> "losses", len |-> 1]
    /\ ValStart
    /\ earlier_pass = NoEarlierPass
    /\ lm_pc = "idle"
    /\ lm_dl = [len |-> val_dl.len]
    /\ lm_config = [generation |-> 0, saving |-> 0, plotting |-> 0]
    /\ LmStart
    /\ eval_pc = "called"
    /\ run_params \in RunParams
    /\ train_losses_dict = [loss_type \in {LossTypes[k] : k \in 1 .. 5} |-> Float(4)]
    /\ model_state_dict = 2
    /\ writer = <<>>
    /\ lr_scheduler = <<>>
    /\ evaluations = [initial |-> run_params, passes |-> <<>>]

\* train_model calls evaluate_model again, on the same run_params, writer and
\* lr_scheduler: the model has been trained further, the train losses summed
\* anew, and the epoch is the same or the next.
EvalCalledAgain ==
    /\ eval_pc = "returned"
    /\ Len(evaluations.passes) < MaxEvaluations
    /\ \E epoch \in {run_params.epoch, run_params.epoch + 1} :
           run_params' = [run_params EXCEPT !.epoch = epoch]
    /\ model_state_dict' = model_state_dict + 1
    /\ train_losses_dict' = [loss_type \in DOMAIN train_losses_dict |-> Float(4)]
    /\ eval_pc' = "called"
    /\ UNCHANGED <<writer, lr_scheduler, evaluations>>
    /\ UNCHANGED <<sel_vars, val_vars, lm_vars>>

NextEvalRuns ==
    \/ EvalCallVal
    \/ ValNextBatch
    \/ ValUpdate
    \/ ValReduce
    \/ EvalCallLm
    \/ LmWriteSentences
    \/ LmComputeFinalScores
    \/ EvalWriteReport
    \/ EvalDecide
    \/ EvalCalledAgain

\* A run of calls of evaluate_model on the same run_params.
SpecEvalRuns == InitEvalRuns /\ [][NextEvalRuns]_vars

\* ------------------------------------------------ claims on the selection
\* The rows of pred_scores (numbered over the whole batch) of image k.
RowsOfImage(k) ==
    LET offset == SumSeq(SubSeq(boxes_per_image, 1, k - 1))
    IN  (offset + 1) .. (offset + boxes_per_image[k])

\* Region r is the arg-max non-background region of row i.
Predicts(i, r) == ArgMaxFirstRegion(pred_scores[i]) = r

\* C1: for every image of the batch, whatever its number of proposals, the
\* call returns 36 feature slots and 36 not-predicted flags; an image with
\* no proposal has all 36 flags set, and the call does not fail.
C1_FixedCardinality ==
    /\ sel_pc # "raised"
    /\ sel_pc = "returned" =>
          /\ Len(top_region_features_per_image) = Len(boxes_per_image)
          /\ Len(class_not_predicted_per_image) = Len(boxes_per_image)
          /\ \A k \in 1 .. Len(boxes_per_image) :
                /\ DOMAIN top_region_features_per_image[k] = Regions
                /\ DOMAIN class_not_predicted_per_image[k] = Regions
                /\ boxes_per_image[k] = 0 =>
                      \A r \in Regions : class_not_predicted_per_image[k][r]

\* C2: for every region r that a proposal of the image predicts, slot r
\* holds the features of a proposal of that image that predicts r and whose
\* probability for r is the maximum among the proposals predicting r.
C2_TopFeatureOfPredictedRegion ==
    sel_pc = "returned" =>
        \A k \in 1 .. Len(boxes_per_image) : \A r \in Regions :
            (\E i \in RowsOfImage(k) : Predicts(i, r)) =>
                \E i \in RowsOfImage(k) :
                    /\ top_region_features_per_image[k][r] = region_features[i]
                    /\ Predicts(i, r)
                    /\ \A j \in RowsOfImage(k) :
                          Predicts(j, r) => pred_scores[j][r] <= pred_scores[i][r]

\* Where the proposals of an image that predict region r all have a positive
\* probability for r, slot r holds the features of one of them with the
\* maximal probability for r.
TopFeatureOfPositivelyPredictedRegion ==
    sel_pc = "returned" =>
        \A k \in 1 .. Len(boxes_per_image) : \A r \in Regions :
            /\ \E i \in RowsOfImage(k) : Predicts(i, r)
            /\ \A i \in RowsOfImage(k) : Predicts(i, r) => pred_scores[i][r] > 0
            => \E i \in RowsOfImage(k) :
                    /\ top_region_features_per_image[k][r] = region_features[i]
                    /\ Predicts(i, r)
                    /\ \A j \in RowsOfImage(k) :
                          Predicts(j, r) => pred_scores[j][r] <= pred_scores[i][r]

\* C3: region r is flagged not-predicted exactly when no proposal of the
\* image predicts r; when all proposals predict one region, the 35 others
\* are flagged and that one is not.
C3_NotPredictedIffNoProposal ==
    sel_pc = "returned" =>
        \A k \in 1 .. Len(boxes_per_image) : \A r \in Regions :
            class_not_predicted_per_image[k][r] <=>
                ~ \E i \in RowsOfImage(k) : Predicts(i, r)

\* An image whose two proposals predict the same region: 35 flags are set.
C3_Witness ==
    /\ sel_pc = "returned"
    /\ \E k \in 1 .. Len(boxes_per_image) :
          /\ boxes_per_image[k] = 2
          /\ \A i \in RowsOfImage(k) : Predicts(i, 35)
          /\ Cardinality({r \in Regions : class_not_predicted_per_image[k][r]}) = 35
          /\ ~ class_not_predicted_per_image[k][35]

\* --------------------------------------- claims on the overlap accumulator
\* The (predicted box, ground-truth box, detected) entry of image i of the
\* batch in flight, for region r.
Entry(i, r) ==
    <<batch.top_region_boxes[i][r], batch.gt_boxes[i][r], batch.class_detected[i][r]>>

\* The boxes of entry e share no point of positive area: they do not overlap
\* in x or do not overlap in y.
EntryDisjoint(e) ==
    \/ e[1][3] <= e[2][1]
    \/ e[2][3] <= e[1][1]
    \/ e[1][4] <= e[2][2]
    \/ e[2][4] <= e[1][2]

EntryPositiveArea(e) ==
    /\ e[1][1] < e[1][3] /\ e[1][2] < e[1][4]
    /\ e[2][1] < e[2][3] /\ e[2][2] < e[2][4]

\* The entry counts as an intersection: overlapping boxes, region detected.
EntryValid(e) == e[3] /\ ~ EntryDisjoint(e)

\* Width times height of the overlap of the boxes of e; for disjoint boxes
\* the product of the (signed) gaps.
EntryOverlapProduct(e) ==
    (Min(e[1][3], e[2][3]) - Max(e[1][1], e[2][1]))
        * (Min(e[1][4], e[2][4]) - Max(e[1][2], e[2][2]))

EntryBoxAreas(e) ==
    ((e[1][3] - e[1][1]) * (e[1][4] - e[1][2]))
        + ((e[2][3] - e[2][1]) * (e[2][4] - e[2][2]))

\* A step of the loop body: the batch in flight is accumulated.
IsValUpdate == val_pc = "body" /\ val_pc' = "loop"

SumIntersectionAdded(r) ==
    obj_detector_scores'.sum_intersection_area_per_region[r]
        - obj_detector_scores.sum_intersection_area_per_region[r]

SumUnionAdded(r) ==
    obj_detector_scores'.sum_union_area_per_region[r]
        - obj_detector_scores.sum_union_area_per_region[r]

ReducedWith(r, P(_)) ==
    /\ val_pc = "reduced"
    /\ entries_seen[r] # {}
    /\ \A e \in entries_seen[r] : P(e)

AvgIou(r) == obj_detector_scores.avg_iou_per_region[r]

\* C5: when all entries of region r over a pass are detected pairs of
\* disjoint boxes of positive area, the reduced IoU of r is exactly 0.0
\* (not NaN, not negative).
C5_DisjointBoxesIouZero ==
    \A r \in Regions :
        ReducedWith(r, LAMBDA e : e[3] /\ EntryDisjoint(e) /\ EntryPositiveArea(e))
            => AvgIou(r) = Float(0)

\* C6: when all entries of region r over a pass are detected pairs whose
\* predicted box equals the ground-truth box (positive area), the reduced
\* IoU of r is exactly 1.0, whatever the number of batches and images.
C6_IdenticalBoxesIouOne ==
    \A r \in Regions :
        ReducedWith(r, LAMBDA e : e[3] /\ e[1] = e[2] /\ EntryPositiveArea(e))
            => AvgIou(r) = Float(1)

\* A pass of two batches and at least three images whose entries of the
\* probe region are identical pairs of two different boxes.
C6_Witness ==
    /\ ReducedWith(ValProbe, LAMBDA e : e[3] /\ e[1] = e[2] /\ EntryPositiveArea(e))
    /\ Cardinality(entries_seen[ValProbe]) = 2
    /\ num_batch = 2
    /\ num_images >= 3
    /\ AvgIou(ValProbe) = Float(1)

\* C7: reducing after a pass over no batch does not raise and gives NaN for
\* each of the 36 IoU values, 0 for the average number of detected regions
\* per image and 0 for each of the 36 average detections per region.
C7_ReduceAfterZeroUpdates ==
    val_dl.len = 0 =>
        /\ val_pc # "raised"
        /\ val_pc = "reduced" =>
              /\ \A r \in Regions : AvgIou(r) = NaN
              /\ obj_detector_scores.avg_num_detected_regions_per_image = Float(0)
              /\ \A r \in Regions :
                    obj_detector_scores.avg_detections_per_region[r] = Float(0)

\* ------------------------------------ claims on the region-selection metrics
\* No precision or recall object of the region selection has received a
\* call without entries.
NoEmptyUpdate ==
    \A subset \in Subsets : \A metric \in MetricNames :
        region_selection_scores[subset][metric].empty_updates = 0

\* C8: no precision or recall object of a subset is ever called with an
\* empty input; the update of 'normal' (of 'abnormal') is skipped for a batch
\* without normal (abnormal) entries.
C8_EmptySubsetUpdateSkipped ==
    val_pc \in {"loop", "body"} => NoEmptyUpdate

ConfusionCells == {"tp", "fp", "tn", "fn"}

\* The entries a metric object has been fed so far.
Fed(scores, subset, metric) ==
    LET m == scores[subset][metric] IN m.tp + m.fp + m.tn + m.fn

\* Entry (i, r) of the batch in flight falls in the given confusion cell.
InCell(i, r, cell) ==
    LET selected == batch.selected_regions[i][r]
        has_sentence == batch.region_has_sentence[i][r]
    IN  CASE cell = "tp" -> selected /\ has_sentence
          [] cell = "fp" -> selected /\ ~ has_sentence
          [] cell = "fn" -> ~ selected /\ has_sentence
          [] cell = "tn" -> ~ selected /\ ~ has_sentence

\* The number of entries of the batch in flight in the cell, with the given
\* is_abnormal flags.
BatchEntries(cell, flags) ==
    Cardinality({e \in (1 .. batch.size) \X Regions :
                    /\ InCell(e[1], e[2], cell)
                    /\ batch.region_is_abnormal[e[1]][e[2]] \in flags})

\* C10: every entry of a batch is fed to the 'all' metrics and to exactly
\* one of 'normal' and 'abnormal', 'abnormal' exactly when its is_abnormal
\* flag is true; so the entries fed to normal and to abnormal add up to
\* those fed to all, 36 for every image.
C10_RoutingExhaustiveAndDisjoint ==
    [][IsValUpdate =>
        \A metric \in MetricNames :
            /\ \A cell \in ConfusionCells :
                  LET Added(subset) == region_selection_scores'[subset][metric][cell]
                                         - region_selection_scores[subset][metric][cell]
                  IN  /\ Added("all") = BatchEntries(cell, BOOLEAN)
                      /\ Added("abnormal") = BatchEntries(cell, {TRUE})
                      /\ Added("normal") = BatchEntries(cell, {FALSE})
            /\ Fed(region_selection_scores', "normal", metric)
                 + Fed(region_selection_scores', "abnormal", metric)
                    = Fed(region_selection_scores', "all", metric)
            /\ Fed(region_selection_scores', "all", metric) = NumRegions * num_images']_vars

\* Two batches have been accumulated, with normal and abnormal entries and
\* with every confusion cell of 'all' fed.
C10_Witness ==
    /\ val_pc = "loop"
    /\ num_batch = 2
    /\ \A metric \in MetricNames :
          /\ Fed(region_selection_scores, "normal", metric) > 0
          /\ Fed(region_selection_scores, "abnormal", metric) > 0
          /\ Fed(region_selection_scores, "normal", metric)
               + Fed(region_selection_scores, "abnormal", metric) = NumRegions * num_images
          /\ \A cell \in ConfusionCells : region_selection_scores["all"][metric][cell] > 0

\* --------------------------------------------- claims on the text metrics
\* C9: no text metric of any subset is handed the string '#' as a
\* reference: a reference equal to '#' is replaced by '' before add_batch.
C9_SentinelNeverReachesTextMetric ==
    lm_pc \in {"loop", "body", "written"} =>
        \A subset \in Subsets : \A metric \in TextMetricNames :
            LET references == language_model_scores[subset][metric].references
            IN  \A k \in 1 .. Len(references) : references[k] # "#"

\* A step of the generation loop body: the batch in flight is scored.
IsLmUpdate == lm_pc = "body" /\ lm_pc' = "loop"

\* The selected (image, region) entries of the batch in flight whose
\* is_abnormal flag is one of flags.
SelectedEntries(flags) ==
    {e \in (1 .. lm_batch.size) \X Regions :
        /\ lm_batch.selected_regions[e[1]][e[2]]
        /\ lm_batch.region_is_abnormal[e[1]][e[2]] \in flags}

\* The position of entry e among the entries S, images first, regions next.
RowMajorRank(e, S) ==
    Cardinality({x \in S : x[1] < e[1] \/ (x[1] = e[1] /\ x[2] < e[2])}) + 1

\* The (generated, reference) pairs of the entries S in row-major order: an
\* entry's generated sentence is the one decoded for its position among all
\* selected entries, its reference the one of its image and region.
PairsOf(S) ==
    [k \in 1 .. Cardinality(S) |->
        LET e == CHOOSE x \in S : RowMajorRank(x, S) = k
        IN  [generated |->
                 lm_batch.generated_sentences_for_selected_regions[
                     RowMajorRank(e, SelectedEntries(BOOLEAN))],
             reference |-> lm_batch.reference_sentences[e[1]][e[2]]]]

\* The metric of the subset received exactly the pairs of S, in order.
AddedPairs(subset, metric, S) ==
    LET old == language_model_scores[subset][metric]
        new == language_model_scores'[subset][metric]
        pairs == PairsOf(S)
    IN  /\ new.predictions = old.predictions \o [k \in DOMAIN pairs |-> pairs[k].generated]
        /\ new.references = old.references \o [k \in DOMAIN pairs |-> pairs[k].reference]

\* C11: every (generated, reference) pair of a selected region is added to
\* the 'all' metrics and to exactly one of 'normal' and 'abnormal', by the
\* is_abnormal flag of its own (image, region); in every subset the i-th
\* generated sentence and the i-th reference belong to the same selected
\* entry, in row-major order of selected_regions.
C11_PairsRoutedByRegionFlag ==
    [][IsLmUpdate =>
        \A metric \in TextMetricNames :
            /\ AddedPairs("all", metric, SelectedEntries(BOOLEAN))
            /\ AddedPairs("normal", metric, SelectedEntries({FALSE}))
            /\ AddedPairs("abnormal", metric, SelectedEntries({TRUE}))]_vars

\* A first batch of two images, one of them with a normal and an abnormal
\* selected region, has been scored: three pairs in 'all', the normal one
\* with its own reference in 'normal', the other two in 'abnormal'.
C11_Witness ==
    /\ lm_pc = "loop"
    /\ lm_num_batch = 1
    /\ \A metric \in TextMetricNames :
          /\ Len(language_model_scores["all"][metric].predictions) = 3
          /\ language_model_scores["normal"][metric].references = <<"no effusion">>
          /\ language_model_scores["abnormal"][metric].references
                = <<"opacity noted", "opacity noted">>

\* ------------------------------------------- claims on the binary decisions
\* The step that reduces the accumulators of a validation pass.
IsValReduce == val_pc = "loop" /\ val_pc' = "reduced"

\* The precision and recall objects of the pass, with the name of the score
\* each computes: those of the three region-selection subsets and those of
\* the abnormality classifier.
ReducedMetrics ==
    {[name |-> metric, counts |-> region_selection_scores[subset][metric],
      score |-> region_selection_scores'[subset][metric]] :
        subset \in Subsets, metric \in MetricNames}
    \cup {[name |-> metric, counts |-> region_abnormal_scores[metric],
           score |-> region_abnormal_scores'[metric]] : metric \in MetricNames}

\* A pass fed only entries with predicted = actual = true reports 1.0.
AllTrueScoresOne ==
    [][IsValReduce =>
        \A m \in ReducedMetrics :
            m.counts.tp > 0 /\ m.counts.fp = 0 /\ m.counts.fn = 0 /\ m.counts.tn = 0
                => m.score = Float(1)]_vars

\* C12: the reduction reports precision = tp / predicted positives and
\* recall = tp / actual positives; fed only predicted = actual = true both
\* are 1.0; fed only predicted = false with at least one actual = true the
\* recall is 0.0 and the precision is NaN, not zero.
C12_PrecisionRecallOfPositiveClass ==
    [][IsValReduce =>
        \A m \in ReducedMetrics :
            LET predicted == m.counts.tp + m.counts.fp
                actual == m.counts.tp + m.counts.fn
            IN  /\ m.name = "precision" /\ predicted > 0
                    => m.score = TensorDiv(m.counts.tp, predicted)
                /\ m.name = "recall" /\ actual > 0
                    => m.score = TensorDiv(m.counts.tp, actual)
                /\ m.name = "precision" /\ predicted = 0 /\ actual > 0
                    => m.score = NaN]_vars

\* ------------------------------------------- claims on the detection counts
\* The number of detected entries fed for every region up to now.
TotalDetected == TensorSum([r \in Regions |-> Float(obj_detector_scores.sum_region_detected[r])],
                           NumRegions)

\* C13: every batch adds, for region r, its number of images with r detected
\* to the detected count and its number of images to the image count; the
\* reduction gives, for r, the detected count of r over the image count, and
\* for the image the sum of these 36 values, the detected entries of the
\* pass over its images, however the images come in batches.
C13_DetectionAverages ==
    [][/\ IsValUpdate =>
            /\ num_images' = num_images + batch.size
            /\ \A r \in Regions :
                  obj_detector_scores'.sum_region_detected[r]
                    = obj_detector_scores.sum_region_detected[r]
                        + Cardinality({i \in 1 .. batch.size : batch.class_detected[i][r]})
       /\ IsValReduce =>
            /\ \A r \in Regions :
                  obj_detector_scores'.avg_detections_per_region[r]
                    = TensorDiv(obj_detector_scores.sum_region_detected[r], num_images)
            /\ obj_detector_scores'.avg_num_detected_regions_per_image
                  = TensorDiv(TotalDetected.num, num_images)]_vars

\* Two images with two and with one detected region have been reduced: 1.5
\* detected regions per image, region 0 in every image, region 1 in half.
C13_Witness ==
    /\ val_pc = "reduced"
    /\ val_dl.kind = "detections"
    /\ num_images = 2
    /\ obj_detector_scores.sum_region_detected[0] = 2
    /\ obj_detector_scores.sum_region_detected[1] = 1
    /\ obj_detector_scores.avg_num_detected_regions_per_image = TensorDiv(3, 2)
    /\ obj_detector_scores.avg_detections_per_region[0] = Float(1)
    /\ obj_detector_scores.avg_detections_per_region[1] = TensorDiv(1, 2)

\* ------------------------------------------- claims on the sentences file
\* The step that writes the sentences file.
IsLmWrite == lm_pc = "loop" /\ lm_pc' = "written"

\* C17: the pairs of a batch are saved, in order, exactly when the index of
\* the batch is below NUM_BATCHES_OF_GENERATED_SENTENCES_TO_SAVE_TO_FILE; the
\* file holds, for every saved pair in order, the generated sentence as it
\* is and the reference as it is, but '' for a reference equal to '#'; the
\* saved list itself keeps the '#'.
C17_SavedPairsWrittenVerbatimButSentinel ==
    [][/\ IsLmUpdate =>
            LET pairs == PairsOf(SelectedEntries(BOOLEAN))
                saved == gen_and_ref_sentences_to_save_to_file
            IN  gen_and_ref_sentences_to_save_to_file' =
                    IF lm_num_batch < lm_config.saving
                    THEN [generated_sentences |->
                              saved.generated_sentences
                                  \o [k \in DOMAIN pairs |-> pairs[k].generated],
                          reference_sentences |->
                              saved.reference_sentences
                                  \o [k \in DOMAIN pairs |-> pairs[k].reference]]
                    ELSE saved
       /\ IsLmWrite =>
            LET saved == gen_and_ref_sentences_to_save_to_file
            IN  /\ gen_and_ref_sentences_to_save_to_file' = saved
                /\ Len(generated_sentences_txt_file') = Len(saved.generated_sentences)
                /\ \A k \in 1 .. Len(saved.generated_sentences) :
                      /\ generated_sentences_txt_file'[k].generated
                            = saved.generated_sentences[k]
                      /\ saved.reference_sentences[k] # "#" =>
                            generated_sentences_txt_file'[k].reference
                                = saved.reference_sentences[k]
                      /\ saved.reference_sentences[k] = "#" =>
                            generated_sentences_txt_file'[k].reference = ""]_vars

\* Two batches were scored and the first one only was saved; the file shows
\* '' for a saved reference that is '#' in memory, next to a reference
\* written as it is.
C17_Witness ==
    /\ lm_pc = "written"
    /\ lm_num_batch = 2
    /\ lm_config.saving = 1
    /\ Len(generated_sentences_txt_file)
          < Len(language_model_scores["all"]["bleu_1"].predictions)
    /\ \E k \in 1 .. Len(generated_sentences_txt_file) :
          /\ generated_sentences_txt_file[k].reference = ""
          /\ gen_and_ref_sentences_to_save_to_file.reference_sentences[k] = "#"
    /\ \E k \in 1 .. Len(generated_sentences_txt_file) :
          generated_sentences_txt_file[k].reference = "opacity noted"

\* ------------------------------------- claims on the generation sub-loops
\* The number of batches the generation loop is to process.
GenerationBound == Min(lm_dl.len, lm_config.generation)

\* C19: the generation loop scores the batches in order and exactly the
\* first min(len(val_dl), NUM_SENTENCES_TO_GENERATE_FOR_EVALUATION //
\* BATCH_SIZE) of them, and plots exactly the first min(that number,
\* NUM_IMAGES_TO_PLOT // BATCH_SIZE): a batch whose index has reached a bound
\* is not scored, respectively not plotted.
C19_GenerationAndPlottingBounded ==
    [][/\ IsLmUpdate =>
            /\ lm_num_batch < GenerationBound
            /\ lm_num_batch' = lm_num_batch + 1
            /\ \A metric \in TextMetricNames :
                  language_model_scores'["all"][metric].add_batch_calls = lm_num_batch + 1
            /\ num_plots' = IF lm_num_batch < lm_config.plotting
                            THEN num_plots + 1 ELSE num_plots
       /\ IsLmWrite =>
            /\ lm_num_batch = GenerationBound
            /\ num_plots = Min(GenerationBound, lm_config.plotting)
            /\ \A metric \in TextMetricNames :
                  language_model_scores["all"][metric].add_batch_calls = GenerationBound
       /\ lm_pc \in {"written", "returned"} =>
            /\ lm_num_batch' = lm_num_batch
            /\ num_plots' = num_plots]_vars

\* A pass over two batches with a generation bound of one batch has ended:
\* one batch was scored and plotted, the second was not.
C19_Witness ==
    /\ lm_pc = "returned"
    /\ lm_dl.len = 2
    /\ lm_config.generation = 1
    /\ lm_config.plotting = 1
    /\ lm_num_batch = 1
    /\ num_plots = 1

\* ------------------------------------------------------ claims on the ties
\* The proposals of image k that predict region r with the largest
\* probability for r among the proposals of k predicting r.
TopProposals(k, r) ==
    {i \in RowsOfImage(k) :
        /\ Predicts(i, r)
        /\ \A j \in RowsOfImage(k) : Predicts(j, r) => pred_scores[j][r] <= pred_scores[i][r]}

\* Slot r of image k holds the features of the first of TopProposals(k, r).
FirstTopProposalSelected(k, r) ==
    \E i \in TopProposals(k, r) :
        /\ top_region_features_per_image[k][r] = region_features[i]
        /\ \A j \in TopProposals(k, r) : i <= j

\* C20: when several proposals of an image predict region r with the same
\* probability for r, the largest for r, the features of the first of them
\* in proposal order are selected; a proposal with a strictly lower
\* probability is never preferred.
C20_TiesBrokenByProposalOrder ==
    sel_pc = "returned" =>
        \A k \in 1 .. Len(boxes_per_image) : \A r \in Regions :
            Cardinality(TopProposals(k, r)) >= 2 => FirstTopProposalSelected(k, r)

\* Ties on a positive probability are broken by proposal order.
PositiveTiesBrokenByProposalOrder ==
    sel_pc = "returned" =>
        \A k \in 1 .. Len(boxes_per_image) : \A r \in Regions :
            /\ Cardinality(TopProposals(k, r)) >= 2
            /\ \A i \in TopProposals(k, r) : pred_scores[i][r] > 0
            => FirstTopProposalSelected(k, r)

\* ------------------------------------------------ claims on repeated passes
\* C16: a pass over the batch outputs of an earlier pass returns the reduced
\* results the earlier pass returned: losses, object detector scores, region
\* selection and region abnormal scores.
C16_SameOutputsSameResults ==
    (val_pc = "reduced" /\ earlier_pass.results # <<>>) =>
        ReducedResults = earlier_pass.results[1]

\* A second pass over two batches that differ has been reduced.
C16_Witness ==
    /\ val_pc = "reduced"
    /\ earlier_pass.results # <<>>
    /\ Len(earlier_pass.batch_outputs) = 2
    /\ earlier_pass.batch_outputs[1] # earlier_pass.batch_outputs[2]
    /\ num_images = 2
    /\ val_losses_dict["total_loss"].kind = "num"

\* ---------------------------------------------- claims on evaluate_model
IsEvalDecide == eval_pc = "reported" /\ eval_pc' = "returned"

\* The best-checkpoint record of run_params.
BestRecord(params) ==
    <<params.lowest_val_loss, params.best_epoch, params.best_model_save_path,
      params.best_model_state>>

\* loss is a number strictly below lowest, itself a number or +inf.
StrictlyLower(loss, lowest) ==
    /\ loss.kind = "num"
    /\ \/ lowest.kind = "inf" /\ lowest.num > 0
       \/ lowest.kind = "num" /\ loss.num * lowest.den < lowest.num * loss.den

\* The path names the folder, the epoch and the loss to the nearest thousandth.
PathEmbeds(path, folder, loss, epoch) ==
    /\ path.folder = folder
    /\ path.epoch = epoch
    /\ path.val_loss.kind = "num"
    /\ 2 * Abs(1000 * loss.num - path.val_loss.thousandths * loss.den) <= loss.den

\* C14: the decision of evaluate_model replaces the best-checkpoint record
\* exactly when the total validation loss of the pass is strictly lower than
\* run_params['lowest_val_loss']: then lowest_val_loss is that loss,
\* best_epoch the current epoch, best_model_save_path embeds both and
\* best_model_state is the model's state at that moment; when the loss is
\* equal, higher or NaN the four fields keep their values, as they do in
\* every other step.
C14_BestRecordUpdatedIffStrictlyLower ==
    [][IF IsEvalDecide /\ StrictlyLower(val_losses_dict["total_loss"],
                                       run_params.lowest_val_loss)
       THEN /\ run_params'.lowest_val_loss = val_losses_dict["total_loss"]
            /\ run_params'.best_epoch = <<run_params.epoch>>
            /\ Len(run_params'.best_model_save_path) = 1
            /\ PathEmbeds(run_params'.best_model_save_path[1],
                          run_params.weights_folder_path,
                          val_losses_dict["total_loss"], run_params.epoch)
            /\ run_params'.best_model_state = <<model_state_dict>>
       ELSE BestRecord(run_params') = BestRecord(run_params)]_vars

\* A pass with a loss of 7.0 has replaced a record of 7.5 at epoch 1.
C14_Witness ==
    /\ eval_pc = "returned"
    /\ lr_scheduler = <<Float(7)>>
    /\ run_params.lowest_val_loss = Float(7)
    /\ run_params.best_epoch = <<3>>
    /\ run_params.best_model_state = <<2>>
    /\ run_params.best_model_save_path[1].val_loss.thousandths = 7000

\* A pass whose loss is NaN has left the record of 7.5 at epoch 1 as it was.
RecordKeptOnNaN ==
    /\ eval_pc = "returned"
    /\ lr_scheduler = <<NaN>>
    /\ run_params.best_epoch = <<1>>

\* A pass whose loss equals the record's has left the record as it was.
RecordKeptOnEqualLoss ==
    /\ eval_pc = "returned"
    /\ lr_scheduler = <<TensorDiv(15, 2)>>
    /\ run_params.best_epoch = <<1>>

\* C15: once an add_batch or compute call of the text metrics has raised in
\* evaluate_language_model, the language-model pass is not resumed,
\* evaluate_model goes no further than being left by the exception, nothing
\* is written to the report, lr_scheduler is not stepped and run_params is
\* as it was at the call.
C15_TextMetricFailureAbortsEvaluation ==
    /\ [](lm_pc = "raised" =>
            /\ eval_pc \in {"generating", "raised"}
            /\ writer = <<>>
            /\ lr_scheduler = <<>>
            /\ run_params \in RunParams)
    /\ [][lm_pc = "raised" =>
            /\ lm_pc' = "raised"
            /\ language_model_scores' = language_model_scores]_vars

\* evaluate_model has been left by the exception of a compute call, after
\* the text metrics were fed a batch.
C15_Witness ==
    /\ eval_pc = "raised"
    /\ lm_pc = "raised"
    /\ lm_num_batch = 1
    /\ language_model_scores["all"]["bleu_1"].add_batch_calls > 0
    /\ generated_sentences_txt_file # <<>>

\* --------------------------------------- claims on the order of reductions
\* The overlap sums have been reduced (lines 702-709).
OverlapSumsReduced == "avg_iou_per_region" \in DOMAIN obj_detector_scores

\* Every precision and recall object has been replaced by its score
\* (lines 711-718).
DecisionMetricsReduced ==
    /\ \A subset \in Subsets : \A metric \in MetricNames :
           "kind" \in DOMAIN region_selection_scores[subset][metric]
    /\ \A metric \in MetricNames : "kind" \in DOMAIN region_abnormal_scores[metric]

\* The text metrics of every subset have been replaced by their final scores
\* (compute_final_language_model_scores).
TextMetricsReduced ==
    \A subset \in Subsets : DOMAIN language_model_scores[subset] = FinalTextMetricNames

IsLmCompute == lm_pc = "written" /\ lm_pc' = "returned"

\* C18: when a pass is over (evaluate_model has returned or has been left
\* by an exception other than a text-metric backend failure), the overlap
\* sums, the precision/recall metrics and the text metrics have each been
\* reduced.
C18_EveryAccumulatorReduced ==
    (eval_pc \in {"returned", "raised"} /\ lm_pc # "raised") =>
        /\ OverlapSumsReduced
        /\ DecisionMetricsReduced
        /\ TextMetricsReduced

\* The reductions are in order: the overlap sums and the precision/recall
\* metrics are reduced when the validation loop has taken every batch, and
\* not before; the text metrics are reduced when the generation loop is
\* left; a reduced accumulator is neither updated nor reduced again; and a
\* pass that returns has reduced every accumulator.
ReducedOnceAfterLastUpdate ==
    [][/\ IsValReduce => (num_batch = val_dl.len /\ ~ OverlapSumsReduced
                            /\ ~ DecisionMetricsReduced)
       /\ OverlapSumsReduced =>
              UNCHANGED <<obj_detector_scores, region_selection_scores,
                          region_abnormal_scores>>
       /\ OverlapSumsReduced' => DecisionMetricsReduced'
       /\ IsLmCompute => (~ LmLoopContinues /\ ~ TextMetricsReduced)
       /\ TextMetricsReduced => UNCHANGED language_model_scores
       /\ eval_pc' = "returned" =>
              (OverlapSumsReduced' /\ DecisionMetricsReduced' /\ TextMetricsReduced')]_vars

\* A pass over two batches has returned with every accumulator reduced.
ReducedPassReturned ==
    /\ eval_pc = "returned"
    /\ num_batch = 2
    /\ lm_num_batch = 1
    /\ OverlapSumsReduced
    /\ TextMetricsReduced

\* ------------------------------------------ claims on the order of batches
\* The overlap sums and the confusion counts after the batches of the
\* sequence are fed, in its order, to freshly created accumulators.
RECURSIVE AccumulatorsAfter(_, _)
AccumulatorsAfter(batches, n) ==
    IF n = 0
    THEN [obj_detector_scores |->
              [sum_intersection_area_per_region |-> [r \in Regions |-> 0],
               sum_union_area_per_region |-> [r \in Regions |-> 0],
               sum_region_detected |-> [r \in Regions |-> 0]],
          region_selection_scores |->
              [subset \in Subsets |-> [metric \in MetricNames |-> NewMetric]],
          region_abnormal_scores |-> [metric \in MetricNames |-> NewMetric]]
    ELSE LET before == AccumulatorsAfter(batches, n - 1)
             b == batches[n]
         IN  [obj_detector_scores |->
                  UpdateObjectDetectorMetrics(before.obj_detector_scores, b),
              region_selection_scores |->
                  UpdateRegionSelectionMetrics(before.region_selection_scores,
                                               b.selected_regions, b.region_has_sentence,
                                               b.region_is_abnormal),
              region_abnormal_scores |->
                  UpdateRegionAbnormalMetrics(before.region_abnormal_scores,
                                              b.predicted_abnormal_regions,
                                              b.region_is_abnormal, b.class_detected)]

\* The reduced scores of accumulators (lines 702-718).
ReducedScores(accumulators) ==
    <<AverageObjectDetectorScores(accumulators.obj_detector_scores, num_images),
      [subset \in Subsets |->
          [metric \in MetricNames |->
              MetricCompute(accumulators.region_selection_scores[subset][metric], metric)]],
      [metric \in MetricNames |->
          MetricCompute(accumulators.region_abnormal_scores[metric], metric)]>>

\* The batches the pass has been fed, in every order.
Reorderings(batches) ==
    {[k \in 1 .. Len(batches) |-> batches[order[k]]] :
        order \in Permutations(1 .. Len(batches))}

\* The pass has fed its accumulators all the batches recorded.
AllRecordedFed ==
    /\ earlier_pass.tracing
    /\ earlier_pass.results = <<>>
    /\ num_batch = Len(earlier_pass.batch_outputs)

\* C21: between two batches and at the end of the loop, the running
\* intersection, union and detected-count sums and the confusion counts are
\* those the same batches yield when fed in any other order; the reduced
\* IoU, detection averages, precisions and recalls are those of any other
\* order too.
C21_UpdatesCommuteAcrossBatches ==
    /\ (val_pc = "loop" /\ AllRecordedFed) =>
          \A batches \in Reorderings(earlier_pass.batch_outputs) :
              AccumulatorsAfter(batches, Len(batches)) =
                  [obj_detector_scores |-> obj_detector_scores,
                   region_selection_scores |-> region_selection_scores,
                   region_abnormal_scores |-> region_abnormal_scores]
    /\ (val_pc = "reduced" /\ AllRecordedFed) =>
          \A batches \in Reorderings(earlier_pass.batch_outputs) :
              ReducedScores(AccumulatorsAfter(batches, Len(batches))) =
                  <<obj_detector_scores, region_selection_scores, region_abnormal_scores>>

\* A pass over two batches that differ in boxes, detections and decisions has
\* been reduced.
C21_Witness ==
    /\ val_pc = "reduced"
    /\ AllRecordedFed
    /\ num_batch = 2
    /\ earlier_pass.batch_outputs[1].class_detected # earlier_pass.batch_outputs[2].class_detected
    /\ earlier_pass.batch_outputs[1].selected_regions
           # earlier_pass.batch_outputs[2].selected_regions
    /\ earlier_pass.batch_outputs[1].top_region_boxes
           # earlier_pass.batch_outputs[2].top_region_boxes

\* --------------------------------------- claims on the images of a batch
\* What get_top_region_features returns for image k alone: the selection
\* over the proposals of k only, in their order.
OwnSelection(k) ==
    LET own == [j \in 1 .. boxes_per_image[k] |->
                   CHOOSE i \in RowsOfImage(k) : Cardinality({h \in RowsOfImage(k) : h < i}) = j - 1]
    IN  TopRegionSelection([j \in DOMAIN own |-> pred_scores[own[j]]],
                           [j \in DOMAIN own |-> region_features[own[j]]])

\* The call has returned, for image k, what it returns for k alone.
ReturnsOwnSelection(k) ==
    /\ sel_pc = "returned"
    /\ top_region_features_per_image[k] = OwnSelection(k).top_region_features
    /\ class_not_predicted_per_image[k] = OwnSelection(k).class_not_predicted

\* C22: once the call is over, the 36 feature slots and 36 flags returned
\* for an image with proposals are those of its own proposals, whatever the
\* proposals of the other images of the batch are, none included.
C22_NoCrossImageInteraction ==
    sel_pc \in {"returned", "raised"} =>
        \A k \in 1 .. Len(boxes_per_image) : boxes_per_image[k] > 0 => ReturnsOwnSelection(k)

\* When the call returns, the outputs of every image are those of its own
\* proposals.
OwnSelectionWhenReturned ==
    sel_pc = "returned" => \A k \in 1 .. Len(boxes_per_image) : ReturnsOwnSelection(k)

\* A batch of two images with one proposal each, predicting different
\* regions, has been returned.
TwoImagesReturned ==
    /\ sel_pc = "returned"
    /\ boxes_per_image = <<1, 1>>
    /\ ArgMaxFirstRegion(pred_scores[1]) # ArgMaxFirstRegion(pred_scores[2])

\* ------------------------------------------------ claims on the IoU range
\* A reduced IoU that is NaN or lies in [0, 1].
NaNOrInUnitInterval(iou) ==
    \/ iou.kind = "nan"
    \/ iou.kind = "num" /\ 0 <= iou.num /\ iou.num <= iou.den

\* C23: for well-formed boxes, the running union sum of every region is
\* never negative and never below its running intersection sum, and every
\* reduced avg_iou_per_region is NaN, the summed union being zero, or lies
\* in [0, 1].
C23_IouNaNOrInUnitInterval ==
    /\ \A r \in Regions :
          /\ obj_detector_scores.sum_union_area_per_region[r] >= 0
          /\ obj_detector_scores.sum_union_area_per_region[r]
                >= obj_detector_scores.sum_intersection_area_per_region[r]
    /\ val_pc = "reduced" =>
          \A r \in Regions :
              /\ NaNOrInUnitInterval(obj_detector_scores.avg_iou_per_region[r])
              /\ obj_detector_scores.avg_iou_per_region[r].kind = "nan" =>
                    obj_detector_scores.sum_union_area_per_region[r] = 0

\* The reduced IoU of a region is infinite.
IouInfinite ==
    /\ val_pc = "reduced"
    /\ obj_detector_scores.avg_iou_per_region[ValProbe].kind = "inf"

\* ------------------------------------- claims on a run of evaluate_model
\* The passes decided so far whose total validation loss is below the
\* lowest_val_loss of the first call and below or equal to the loss of every
\* other pass (a NaN loss is below nothing).
MinimalPasses ==
    LET passes == evaluations.passes
    IN  {k \in 1 .. Len(passes) :
            /\ StrictlyLower(passes[k].total_val_loss, evaluations.initial.lowest_val_loss)
            /\ \A j \in 1 .. Len(passes) :
                   ~ StrictlyLower(passes[j].total_val_loss, passes[k].total_val_loss)}

\* C24: over the calls of evaluate_model of a run, lowest_val_loss never
\* increases and is the minimum of its first value and the total validation
\* losses of the passes so far; best_epoch and best_model_save_path name the
\* epoch and the loss of the earliest pass that reached this minimum, and
\* are those of the first call when no pass went below its lowest_val_loss.
C24_RecordIsEarliestMinimum ==
    /\ [](IF MinimalPasses = {}
          THEN BestRecord(run_params) = BestRecord(evaluations.initial)
          ELSE LET k == CHOOSE i \in MinimalPasses : \A j \in MinimalPasses : i <= j
                   earliest == evaluations.passes[k]
               IN  /\ run_params.lowest_val_loss = earliest.total_val_loss
                   /\ run_params.best_epoch = <<earliest.epoch>>
                   /\ Len(run_params.best_model_save_path) = 1
                   /\ PathEmbeds(run_params.best_model_save_path[1],
                                 run_params.weights_folder_path,
                                 earliest.total_val_loss, earliest.epoch))
    /\ [][~ StrictlyLower(run_params.lowest_val_loss, run_params'.lowest_val_loss)]_vars

\* Two passes with the loss 7.0, in epochs 3 and 4, have been decided: the
\* record names the first.
C24_Witness ==
    /\ eval_pc = "returned"
    /\ Len(evaluations.passes) = 2
    /\ evaluations.passes[1] = [epoch |-> 3, total_val_loss |-> Float(7)]
    /\ evaluations.passes[2] = [epoch |-> 4, total_val_loss |-> Float(7)]
    /\ run_params.best_epoch = <<3>>

\* A pass with a lower loss has replaced the record of an earlier pass.
RecordReplacedByLaterPass ==
    /\ eval_pc = "returned"
    /\ Len(evaluations.passes) = 2
    /\ evaluations.passes[1].total_val_loss = Float(8)
    /\ evaluations.passes[2] = [epoch |-> 4, total_val_loss |-> Float(7)]
    /\ run_params.best_epoch = <<4>>
    /\ evaluations.initial.lowest_val_loss = PositiveInfinity

\* --------------------------------------------- claims on the reported losses
\* The sum over the first n batches of the loss of the type, times the batch
\* size when weighted.
RECURSIVE SumOfBatchLosses(_, _, _, _)
SumOfBatchLosses(batches, n, k, weighted) ==
    IF n = 0 THEN Float(0)
    ELSE LET loss == ListOfLosses(batches[n])[k]
             term == IF weighted /\ loss.kind = "num"
                     THEN TensorDiv(loss.num * batches[n].size, loss.den)
                     ELSE loss
         IN  FloatAdd(SumOfBatchLosses(batches, n - 1, k, weighted), term)

\* x / n, as a fraction in lowest terms.
Fraction(x, n) == IF x.kind = "num" THEN TensorDiv(x.num, x.den * n) ELSE x

\* The plain mean of the per-batch losses of the type.
MeanOfBatchLosses(batches, k) ==
    Fraction(SumOfBatchLosses(batches, Len(batches), k, FALSE), Len(batches))

\* x == y of two floats: False when one of them is NaN.
FloatEqual(x, y) == x.kind # "nan" /\ y.kind # "nan" /\ x = y

ConstantBatchSizeReported ==
    /\ val_pc = "reduced"
    /\ AllRecordedFed
    /\ num_batch = 2
    /\ \A n \in 1 .. 2 : earlier_pass.batch_outputs[n].size = 2
    /\ earlier_pass.batch_outputs[1].language_model_loss = Float(1)
    /\ earlier_pass.batch_outputs[2].language_model_loss = Float(2)
    /\ val_losses_dict["language_model_loss"] = Float(3)

\* ------------------------------------ claims on the abnormality decisions
\* The number of detected (image, region) entries of the batches with the
\* given predicted and ground-truth abnormality.
DetectedPairs(batches, predicted, actual) ==
    Cardinality({e \in (1 .. Len(batches)) \X (1 .. MaxBatchSize) \X Regions :
                    /\ e[2] <= batches[e[1]].size
                    /\ batches[e[1]].class_detected[e[2]][e[3]]
                    /\ batches[e[1]].predicted_abnormal_regions[e[2]][e[3]] = predicted
                    /\ batches[e[1]].region_is_abnormal[e[2]][e[3]] = actual})

\* The batch v is the batch b up to the predicted and the ground-truth
\* abnormality of entries that are not detected.
SameWhereDetected(v, b) ==
    /\ v.size = b.size
    /\ v.class_detected = b.class_detected
    /\ \A i \in 1 .. b.size : \A r \in Regions :
           b.class_detected[i][r] =>
               /\ v.predicted_abnormal_regions[i][r] = b.predicted_abnormal_regions[i][r]
               /\ v.region_is_abnormal[i][r] = b.region_is_abnormal[i][r]

\* The passes that differ from the recorded one in undetected entries only.
UndetectedVariants(batches) ==
    {variant \in [1 .. Len(batches) -> Batches(val_dl.kind)] :
        \A n \in 1 .. Len(batches) : SameWhereDetected(variant[n], batches[n])}

\* C26: the abnormality precision and recall objects hold the confusion
\* counts of exactly the detected (predicted, actual) pairs of the batches
\* fed, and the reduced precision and recall are those of every pass that
\* differs only in the predicted or ground-truth abnormality of undetected
\* entries.
C26_OnlyDetectedEntriesCounted ==
    /\ (val_pc = "loop" /\ AllRecordedFed) =>
          \A metric \in MetricNames :
              /\ region_abnormal_scores[metric].tp =
                     DetectedPairs(earlier_pass.batch_outputs, TRUE, TRUE)
              /\ region_abnormal_scores[metric].fp =
                     DetectedPairs(earlier_pass.batch_outputs, TRUE, FALSE)
              /\ region_abnormal_scores[metric].fn =
                     DetectedPairs(earlier_pass.batch_outputs, FALSE, TRUE)
              /\ region_abnormal_scores[metric].tn =
                     DetectedPairs(earlier_pass.batch_outputs, FALSE, FALSE)
    /\ (val_pc = "reduced" /\ AllRecordedFed) =>
          \A variant \in UndetectedVariants(earlier_pass.batch_outputs) :
              region_abnormal_scores =
                  [metric \in MetricNames |->
                      MetricCompute(AccumulatorsAfter(variant, Len(variant))
                                        .region_abnormal_scores[metric], metric)]

\* A pass over a batch whose probe region is detected, abnormal and predicted
\* abnormal and a batch whose probe region is undetected, normal and
\* predicted abnormal has been reduced: precision and recall are 1.0.
C26_Witness ==
    /\ val_pc = "reduced"
    /\ AllRecordedFed
    /\ num_batch = 2
    /\ earlier_pass.batch_outputs[1].class_detected[1][ValProbe]
    /\ earlier_pass.batch_outputs[1].predicted_abnormal_regions[1][ValProbe]
    /\ earlier_pass.batch_outputs[1].region_is_abnormal[1][ValProbe]
    /\ ~ earlier_pass.batch_outputs[2].class_detected[1][ValProbe]
    /\ earlier_pass.batch_outputs[2].predicted_abnormal_regions[1][ValProbe]
    /\ ~ earlier_pass.batch_outputs[2].region_is_abnormal[1][ValProbe]
    /\ region_abnormal_scores = [metric \in MetricNames |-> Float(1)]
    /\ Cardinality(UndetectedVariants(earlier_pass.batch_outputs)) = 4

====
